---- MODULE Spec2Model ----
(***************************************************************************)
(* Model of microcluster's quorum-loss recovery engine:                    *)
(*   internal/recover/recover.go  (validation, tarballs, unpack, backup)   *)
(*   microcluster/app.go          (MicroCluster.RecoverFromQuorumLoss)     *)
(*                                                                         *)
(* The state is the state directory of one cluster member: its trust      *)
(* store, its database directory, the recovery tarball, the unpack        *)
(* directory, the database backups, plus the position of the daemon in    *)
(* MaybeUnpackRecoveryTarball.                                             *)
(***************************************************************************)
EXTENDS Integers, Sequences, FiniteSets, TLC

VARIABLES
    truststore,     \* set of Remotes (name, address) in filesystem.TrustDir
    db,             \* filesystem.DatabaseDir            (StateDir/database)
    unpack,         \* unpackDir                         (StateDir/recovery_db)
    tarball,        \* tarballPath                       (StateDir/recovery_db.tar.gz)
    backups,        \* StateDir/db_backup.<ts>.tar.gz, by timestamp
    stray,          \* files created anywhere else (paths)
    now,            \* wall clock, in seconds (time.Now())
    pc,             \* position of the daemon in MaybeUnpackRecoveryTarball
    idx,            \* unpackTarball: index of the next tarball entry
    localInfoYaml,  \* MaybeUnpackRecoveryTarball: local variable localInfoYaml
    result,         \* what the last MaybeUnpackRecoveryTarball returned
    runs,           \* number of daemon starts so far
    prior,          \* history: the directory contents when the current run began
    created,        \* history: files created by unpackTarball in the current run
    rq,             \* history: the last call of MicroCluster.RecoverFromQuorumLoss
    \* the join-token registry of the cluster
    tokenRecords,   \* the TokenRecords in the replicated database
    clusterRemotes, \* the Remotes in the replicated trust store
    secrets,        \* number of token secrets generated so far
    issued,         \* the join tokens NewJoinToken has returned
    joins,          \* per joining node: its JoinCluster call
    consumeLog,     \* history: the outcomes of Consume, in commit order
    \* the certificate endpoint of every member
    phase,          \* per member: "PreInit" or "Active"
    dbOpen,         \* per member: whether s.Database.IsOpen succeeds
    certFiles,      \* per member and name: <name>.ca, <name>.crt, <name>.key
    loaded,         \* per member: the cluster keypair the listener serves
    handler,        \* per member: its run of clusterCertificatesPut
    forwards,       \* history: requests forwarded to each member
    updates,        \* number of updates the clients have sent
    certPrior,      \* history: certFiles when the last update was sent
    \* an http.Server, its control socket, and its shutdown
    listener,       \* Socket.listener: "nil", "open" or "closed"
    socketCtx,      \* Socket.ctx: "live" or "cancelled"
    listening,      \* whether the server accepts new connections
    conns,          \* per connection: "none", "active", "idle", "closed", "forced"
    callerCtx,      \* the context passed to shutdownServer: "live" or "cancelled"
    elapsed,        \* time since the drain began
    call,           \* the call of shutdownServer or Socket.Close
    drain,          \* the graceful shutdown run by the call, and by the goroutine
    tasks,          \* history: number of goroutines started
    \* a client of the daemon: MicroCluster.Ready, NewCluster, JoinCluster
    daemonState,    \* the daemon: "starting" or "PreInit"
    readyCtx,       \* the context passed to Ready: "live" or "done"
    ready,          \* the call of Ready: position and return value
    poll,           \* the polling goroutine of Ready: position, i, attempts
    finger,         \* the channel finger (capacity 1): "empty" or "nil"
    errLast,        \* the variable errLast of Ready
    succeeded,      \* history: a CheckReady has succeeded
    controls,       \* history: the calls of NewCluster and JoinCluster
    dqliteMembers,  \* what the last call of GetDqliteClusterMembers returned
    \* the control socket of a state directory and the daemons started on it
    sockFile,       \* the file at Socket.Path: "none", "stale", or the daemon
                    \* whose listener it belongs to
    listen          \* per daemon: its position in Socket.Listen, what Listen
                    \* returned, and whether its listener is open

recoverVars == <<truststore, db, unpack, tarball, backups, stray, now, pc, idx,
                 localInfoYaml, result, runs, prior, created, rq>>

tokenVars == <<tokenRecords, clusterRemotes, secrets, issued, joins, consumeLog>>

certVars == <<phase, dbOpen, certFiles, loaded, handler, forwards, updates,
              certPrior>>

shutdownVars == <<listener, socketCtx, listening, conns, callerCtx, elapsed,
                  call, drain, tasks>>

clientVars == <<daemonState, readyCtx, ready, poll, finger, errLast, succeeded,
                controls>>

listenVars == <<sockFile, listen>>

\* the state of everything but the recovery engine and its callers
otherThanRecover == <<tokenVars, certVars, shutdownVars, clientVars, listenVars,
                      dqliteMembers>>

vars == <<recoverVars, tokenVars, certVars, shutdownVars, clientVars, listenVars,
          dqliteMembers>>

-----------------------------------------------------------------------------
(* Bounds of the model *)

\* longest recovery tarball the operator places, in entries
MaxEntries == 2
\* longest member list the operator passes to RecoverFromQuorumLoss
MaxMembers == 2
\* number of daemon starts
MaxRuns == 2
\* number of join tokens issued
MaxTokens == 2
\* number of certificate updates the clients send
MaxUpdates == 1
\* longest drain window, in ticks of the clock
MaxTimeout == 2
\* number of iterations of the polling loop of Ready that are followed
MaxAttempts == 3
\* number of calls of NewCluster and JoinCluster
MaxCalls == 2
\* last second of the wall clock
MaxTime == 1

-----------------------------------------------------------------------------
(* Paths.  A name is a string, modelled as the sequence of its pieces; the *)
(* pieces "/" and "." are single characters, every other piece is a run of *)
(* characters with no "/" and no "..", not starting or ending with ".".    *)
(* A path is the sequence of its components, from the root.                *)

Slash == "/"
Dot == "."

\* mutant: strings.HasPrefix(header.Name, "..")
ContainsDotDot_prefix(name) ==
    Len(name) >= 2 /\ name[1] = Dot /\ name[2] = Dot

\* strings.Contains(header.Name, "..")
ContainsDotDot(name) ==
    \E i \in 1..(Len(name) - 1) : name[i] = Dot /\ name[i + 1] = Dot

RECURSIVE SplitFrom(_, _, _, _)
SplitFrom(name, i, cur, acc) ==
    IF i > Len(name) THEN Append(acc, cur)
    ELSE IF name[i] = Slash THEN SplitFrom(name, i + 1, <<>>, Append(acc, cur))
    ELSE SplitFrom(name, i + 1, Append(cur, name[i]), acc)

\* the components of a name, split at "/"
Split(name) == SplitFrom(name, 1, <<>>, <<>>)

RECURSIVE CleanFrom(_, _, _)
CleanFrom(comps, i, stack) ==
    IF i > Len(comps) THEN stack
    ELSE IF comps[i] = <<>> \/ comps[i] = <<Dot>>
         THEN CleanFrom(comps, i + 1, stack)
    ELSE IF comps[i] = <<Dot, Dot>>
         THEN CleanFrom(comps, i + 1,
                        IF Len(stack) = 0 THEN stack
                        ELSE SubSeq(stack, 1, Len(stack) - 1))
    ELSE CleanFrom(comps, i + 1, Append(stack, comps[i]))

\* path.Join(dir, name) for a rooted dir: join with "/", then path.Clean
Join(dir, name) == CleanFrom(dir \o Split(name), 1, <<>>)

StateDir == << <<"state">> >>
DatabaseDir == Append(StateDir, <<"database">>)
unpackDir == Append(StateDir, <<"recovery_db">>)

InfoYaml == <<"info.yaml">>
ClusterYaml == <<"cluster.yaml">>
Metadata == <<"metadata1">>
Segment == <<"seg">>

\* the file names of a directory in the order of fs.Glob (sorted by name)
SortedNames == <<ClusterYaml, InfoYaml, Metadata, Segment>>

IsUnder(path, dir) ==
    /\ Len(path) > Len(dir)
    /\ SubSeq(path, 1, Len(dir)) = dir

-----------------------------------------------------------------------------
(* File contents *)

Info(id, addr) == [t |-> "info", ID |-> id, Address |-> addr]
Nodes(list) == [t |-> "nodes", nodes |-> list]
Data(v) == [t |-> "data", v |-> v]
\* what a write that stopped half way leaves
Partial == [t |-> "partial"]

\* the length of a content in bytes (os.FileInfo.Size, io.Copy's count)
SizeOf(c) ==
    CASE c.t = "info" -> 2
      [] c.t = "nodes" -> 3 + Len(c.nodes)
      [] c.t = "data" -> c.v
      [] OTHER -> 0

NodeInfo(id, addr, role) == [ID |-> id, Address |-> addr, Role |-> role]

(* Directories and archives *)

NoFiles == [n \in {} |-> Partial]
NoDir == [exists |-> FALSE, files |-> NoFiles]
Dir(files) == [exists |-> TRUE, files |-> files]
Put(files, name, c) ==
    [n \in (DOMAIN files) \cup {name} |-> IF n = name THEN c ELSE files[n]]
Restrict(files, S) == [n \in S |-> files[n]]
HasFile(dir, name) == dir.exists /\ name \in DOMAIN dir.files

NoArchive == [exists |-> FALSE, complete |-> FALSE, entries |-> <<>>]
Archive(entries, complete) ==
    [exists |-> TRUE, complete |-> complete, entries |-> entries]
Entry(name, body, size) == [Name |-> name, Body |-> body, Size |-> size]

\* fs.Glob(os.DirFS(dir), "*"): the names in dir, sorted
Glob(dir) ==
    IF dir.exists THEN SelectSeq(SortedNames, LAMBDA n : n \in DOMAIN dir.files)
    ELSE <<>>

-----------------------------------------------------------------------------
(* Cluster members *)

Member(id, name, addr, role) ==
    [DqliteID |-> id, Name |-> name, Address |-> addr, Role |-> role]

\* mutant: the roles are compared too
membersMatch_withRole(newMember, oldMember) ==
    /\ newMember.DqliteID = oldMember.DqliteID
    /\ newMember.Name = oldMember.Name
    /\ newMember.Address = oldMember.Address
    /\ newMember.Role = oldMember.Role

membersMatch(newMember, oldMember) ==
    /\ newMember.DqliteID = oldMember.DqliteID
    /\ newMember.Name = oldMember.Name
    /\ newMember.Address = oldMember.Address

RECURSIVE memberValid(_, _, _)
memberValid(newMember, oldMembers, j) ==
    IF j > Len(oldMembers) THEN FALSE
    ELSE IF membersMatch(newMember, oldMembers[j]) THEN TRUE
    ELSE memberValid(newMember, oldMembers, j + 1)

RECURSIVE validateFrom(_, _, _)
validateFrom(oldMembers, newMembers, i) ==
    IF i > Len(newMembers) THEN "nil"
    ELSE IF ~memberValid(newMembers[i], oldMembers, 1)
         THEN "ID or address changed for member"
    ELSE validateFrom(oldMembers, newMembers, i + 1)

ValidateMemberChanges(oldMembers, newMembers) ==
    IF Len(newMembers) # Len(oldMembers)
    THEN "members cannot be added or removed"
    ELSE validateFrom(oldMembers, newMembers, 1)

\* dumpYamlNodeStore: dqlite.NewYamlNodeStore(path) and store.Get; a missing
\* file is an empty node store, a file that is no node list is an error
dumpYamlNodeStore(dir, name) ==
    IF ~HasFile(dir, name) THEN [err |-> FALSE, nodes |-> <<>>]
    ELSE IF dir.files[name].t = "nodes"
         THEN [err |-> FALSE, nodes |-> dir.files[name].nodes]
    ELSE [err |-> TRUE, nodes |-> <<>>]

\* mutant: the search of the node list ends at the first match
RECURSIVE membersOfRemote_firstMatch(_, _, _)
membersOfRemote_firstMatch(remote, nodeInfo, j) ==
    IF j > Len(nodeInfo) THEN <<>>
    ELSE IF remote.Address = nodeInfo[j].Address
         THEN << Member(nodeInfo[j].ID, remote.Name, nodeInfo[j].Address,
                        nodeInfo[j].Role) >>
    ELSE membersOfRemote_firstMatch(remote, nodeInfo, j + 1)

RECURSIVE membersOfRemote(_, _, _)
membersOfRemote(remote, nodeInfo, j) ==
    IF j > Len(nodeInfo) THEN <<>>
    ELSE (IF remote.Address = nodeInfo[j].Address
          THEN << Member(nodeInfo[j].ID, remote.Name, nodeInfo[j].Address,
                         nodeInfo[j].Role) >>
          ELSE <<>>) \o membersOfRemote(remote, nodeInfo, j + 1)

RECURSIVE membersOfRemotes(_, _, _)
membersOfRemotes(order, nodeInfo, i) ==
    IF i > Len(order) THEN <<>>
    ELSE membersOfRemote(order[i], nodeInfo, 1)
         \o membersOfRemotes(order, nodeInfo, i + 1)

\* the orders in which a Go map of the remotes can be iterated
Orders(remotes) ==
    {o \in [1..Cardinality(remotes) -> remotes] :
        \A i, j \in 1..Cardinality(remotes) : i # j => o[i] # o[j]}

\* GetDqliteClusterMembers, for one iteration order of remotesByName
GetDqliteClusterMembers(order) ==
    LET store == dumpYamlNodeStore(db, ClusterYaml) IN
    IF store.err THEN [err |-> TRUE, members |-> <<>>]
    ELSE [err |-> FALSE, members |-> membersOfRemotes(order, store.nodes, 1)]


-----------------------------------------------------------------------------
(* Files by path *)

Parent(path) == SubSeq(path, 1, Len(path) - 1)
Base(path) == path[Len(path)]

\* where os.Create(path) creates or truncates a file: in the unpack directory,
\* in the database directory, elsewhere ("stray"), or nowhere (an error: the
\* path is a directory, or its parent directory does not exist)
CreateTarget(path) ==
    IF Len(path) = 0 \/ path = StateDir THEN "error"
    ELSE IF path = unpackDir THEN (IF unpack.exists THEN "error" ELSE "stray")
    ELSE IF path = DatabaseDir THEN (IF db.exists THEN "error" ELSE "stray")
    ELSE IF Parent(path) = unpackDir THEN (IF unpack.exists THEN "unpack" ELSE "error")
    ELSE IF Parent(path) = DatabaseDir THEN (IF db.exists THEN "db" ELSE "error")
    ELSE IF Parent(path) = StateDir \/ Len(Parent(path)) = 0 THEN "stray"
    ELSE "error"

\* os.Open(path) and reading it to the end
ReadAt(path) ==
    IF Len(path) = 0 THEN [ok |-> FALSE, c |-> Partial]
    ELSE IF Parent(path) = DatabaseDir /\ HasFile(db, Base(path))
         THEN [ok |-> TRUE, c |-> db.files[Base(path)]]
    ELSE IF Parent(path) = unpackDir /\ HasFile(unpack, Base(path))
         THEN [ok |-> TRUE, c |-> unpack.files[Base(path)]]
    ELSE [ok |-> FALSE, c |-> Partial]

-----------------------------------------------------------------------------
(* Tarballs *)

RECURSIVE tarEntries(_, _, _)
tarEntries(dir, files, i) ==
    IF i > Len(files) THEN <<>>
    ELSE LET file == ReadAt(Join(dir, files[i])) IN
         IF ~file.ok THEN <<>>
         ELSE << Entry(files[i], file.c, SizeOf(file.c)) >>
              \o tarEntries(dir, files, i + 1)

\* the places where createTarball can fail on an I/O error: -1 is os.Create,
\* k in 0..Len(files) is after k entries were written (k = Len(files): while
\* closing the writers); Len(files) + 1 is no failure
TarFailures(files) == (0 - 1)..(Len(files) + 1)

\* createTarball(tarballPath, dir, files): the error and the archive left at
\* tarballPath, where old is what was there before and f the point of failure
createTarball(old, dir, files, f) ==
    LET all == tarEntries(dir, files, 1) IN
    IF f < 0 THEN [err |-> TRUE, archive |-> old]
    ELSE IF f <= Len(files) \/ Len(all) < Len(files)
         THEN [err |-> TRUE,
               archive |-> Archive(SubSeq(all, 1, IF f < Len(all) THEN f ELSE Len(all)),
                                   FALSE)]
    ELSE [err |-> FALSE, archive |-> Archive(all, TRUE)]

\* mutant: the slice is shortened without moving its last file into the place
\* of info.yaml
RECURSIVE excludeInfoYaml_noSwap(_, _)
excludeInfoYaml_noSwap(dbFiles, indx) ==
    IF indx > Len(dbFiles) THEN dbFiles
    ELSE IF dbFiles[indx] = InfoYaml
         THEN SubSeq(dbFiles, 1, Len(dbFiles) - 1)
    ELSE excludeInfoYaml_noSwap(dbFiles, indx + 1)

RECURSIVE excludeInfoYaml(_, _)
excludeInfoYaml(dbFiles, indx) ==
    IF indx > Len(dbFiles) THEN dbFiles
    ELSE IF dbFiles[indx] = InfoYaml
         THEN SubSeq([dbFiles EXCEPT ![indx] = dbFiles[Len(dbFiles)]],
                     1, Len(dbFiles) - 1)
    ELSE excludeInfoYaml(dbFiles, indx + 1)

\* the files CreateRecoveryTarball passes to createTarball
RecoveryFiles == excludeInfoYaml(Glob(db), 1)

\* CreateRecoveryTarball: the error and the archive left at recovery_db.tar.gz
CreateRecoveryTarball(f) == createTarball(tarball, DatabaseDir, RecoveryFiles, f)

\* fs.Glob(os.DirFS(StateDir), "database/*")
BackupFiles ==
    LET names == Glob(db) IN
    [i \in 1..Len(names) |-> <<"database", Slash>> \o names[i]]

\* mutant: the error of createTarball is dropped
CreateDatabaseBackup_errDropped(t, f) ==
    [err |-> FALSE, archive |-> createTarball(backups[t], StateDir, BackupFiles, f).archive]

\* CreateDatabaseBackup at time t: the error and the archive left at
\* db_backup.<t>.tar.gz
CreateDatabaseBackup(t, f) == createTarball(backups[t], StateDir, BackupFiles, f)


-----------------------------------------------------------------------------
(* The states a member's state directory starts in *)

Remote(name, addr) == [Name |-> name, Address |-> addr]

FullTrustStore == {Remote("n1", "a1"), Remote("n2", "a2")}

TrustStores == { FullTrustStore, {Remote("n1", "a1")} }

LocalNodes == << NodeInfo(1, "a1", "voter"), NodeInfo(2, "a2", "voter") >>
LocalInfo == Info(1, "a1")

\* database directories of the member: complete, without segments, and
\* without one of the two yaml files
FullDatabase ==
    Dir((ClusterYaml :> Nodes(LocalNodes)) @@ (InfoYaml :> LocalInfo)
        @@ (Segment :> Data(0)))

LocalDatabases ==
    { FullDatabase,
      Dir((ClusterYaml :> Nodes(LocalNodes)) @@ (InfoYaml :> LocalInfo)),
      Dir((ClusterYaml :> Nodes(LocalNodes)) @@ (Segment :> Data(0))),
      Dir((InfoYaml :> LocalInfo) @@ (Segment :> Data(0))) }

WellFormed(name, body) == Entry(name, body, SizeOf(body))
\* an entry whose body ends before the size its header announces
Truncated(name, body) == Entry(name, body, SizeOf(body) + 1)

\* the entries of the recovery tarballs an operator (or an attacker) places
TarballEntries ==
    { WellFormed(ClusterYaml, Nodes(<< NodeInfo(1, "a1", "voter"),
                                       NodeInfo(2, "a2", "spare") >>)),
      WellFormed(ClusterYaml, Nodes(<< NodeInfo(2, "a2", "voter") >>)),
      WellFormed(ClusterYaml, Data(1)),
      WellFormed(InfoYaml, Info(2, "a2")),
      WellFormed(Segment, Data(1)),
      Truncated(Segment, Data(1)),
      WellFormed(<<Dot, Dot, Slash, "seg">>, Data(1)),
      WellFormed(<<"seg", Slash, Dot, Dot, Slash, "seg">>, Data(1)),
      WellFormed(<<Dot, Dot, Slash, "database", Slash, "info.yaml">>,
                 Info(2, "a2")) }

SeqsUpTo(S, n) == UNION {[1..k -> S] : k \in 0..n}

PlacedTarballs ==
    {NoArchive} \cup {Archive(es, TRUE) : es \in SeqsUpTo(TarballEntries, MaxEntries)}

\* the member lists an operator passes to RecoverFromQuorumLoss
MemberValues ==
    {Member(id, name, addr, role) :
        id \in {1, 2}, name \in {"n1", "n2"}, addr \in {"a1", "a2"},
        role \in {"voter", "spare"}}

MemberLists == SeqsUpTo(MemberValues, MaxMembers)

Snapshot == [db |-> db, backups |-> backups, tarball |-> tarball]
NoCall == [called |-> FALSE]

\* the nodes that ask to join the cluster
Joiners == {"j1", "j2"}
NoJoin == [pc |-> "idle"]

\* no token was issued and no node has asked to join
TokensAtRest ==
    /\ tokenRecords = {}
    /\ clusterRemotes = {}
    /\ secrets = 0
    /\ issued = {}
    /\ joins = [j \in Joiners |-> NoJoin]
    /\ consumeLog = <<>>

\* the members of the cluster; a request arrives at Receiver (the members run
\* the same code, so which member it is does not matter)
Members == {"m1", "m2", "m3"}
Receiver == "m1"
Others(m) == Members \ {m}

\* certificate files: PEM data, data that is no PEM, no data
Pem(kind, v) == [t |-> "pem", kind |-> kind, v |-> v]
Garbage == [t |-> "garbage"]
Empty == [t |-> "empty"]

ClusterName == <<"cluster">>
ServerName == <<"server">>
\* the names under which keypairs are kept
CertNames == {ClusterName, ServerName}

KeyPairFiles(ca, crt, key) == [ca |-> ca, crt |-> crt, key |-> key]
InstalledFiles == KeyPairFiles(Pem("ca", 0), Pem("crt", 0), Pem("key", 0))

NoRequest == [pc |-> "idle"]

\* no certificate update has been sent
CertsAtRest ==
    /\ phase = [m \in Members |-> "Active"]
    /\ dbOpen = [m \in Members |-> TRUE]
    /\ certFiles = [m \in Members |-> [n \in CertNames |-> InstalledFiles]]
    /\ loaded = [m \in Members |-> [crt |-> Pem("crt", 0), key |-> Pem("key", 0)]]
    /\ handler = [m \in Members |-> NoRequest]
    /\ forwards = [m \in Members |-> 0]
    /\ updates = 0
    /\ certPrior = certFiles

\* the connections of the server; Trigger is the connection of the request
\* whose handler asks for the shutdown
Conns == {"c1", "c2"}
Trigger == "c1"

NoShutdown ==
    [pc |-> "idle", fn |-> "none", timeout |-> 0, lazy |-> FALSE,
     caller |-> "daemon", ret |-> "none"]
NoDrain ==
    [pc |-> "none", ctx |-> "background", timeout |-> 0, lnerr |-> "nil",
     ret |-> "none"]

\* the server listens, has no connection, and is not being shut down
ServerAtRest ==
    /\ listener = "open"
    /\ socketCtx = "live"
    /\ listening = TRUE
    /\ conns = [c \in Conns |-> "none"]
    /\ callerCtx = "live"
    /\ elapsed = 0
    /\ call = NoShutdown
    /\ drain = [t \in {"call", "bg"} |-> NoDrain]
    /\ tasks = 0

NotCalled == [pc |-> "idle", ret |-> "none"]
NotPolling == [pc |-> "none", i |-> 0, attempts |-> 0]

\* no client has called the daemon
ClientAtRest ==
    /\ daemonState = "starting"
    /\ readyCtx = "live"
    /\ ready = NotCalled
    /\ poll = NotPolling
    /\ finger = "empty"
    /\ errLast = "nil"
    /\ succeeded = FALSE
    /\ controls = <<>>

\* the daemons that are started on the state directory
Daemons == {"d1", "d2"}
NotListening == [pc |-> "idle", ret |-> "none", live |-> FALSE]
NotAsked == [called |-> FALSE]

\* no daemon has been started and the members have not been asked for
SocketAtRest ==
    /\ sockFile = "none"
    /\ listen = [d \in Daemons |-> NotListening]
    /\ dqliteMembers = NotAsked

\* the components other than the recovery engine, before they are used
OthersAtRest ==
    TokensAtRest /\ CertsAtRest /\ ServerAtRest /\ ClientAtRest /\ SocketAtRest

\* A member is either one that holds no recovery tarball (the member the
\* operator recovers on: any trust store, any database directory), or one that
\* the operator has copied a recovery tarball to
Init ==
    /\ tarball \in PlacedTarballs
    /\ truststore \in (IF tarball.exists THEN {FullTrustStore} ELSE TrustStores)
    /\ db \in (IF tarball.exists THEN {FullDatabase} ELSE LocalDatabases)
    /\ unpack = NoDir
    /\ backups = [t \in 0..MaxTime |-> NoArchive]
    /\ stray = {}
    /\ now = 0
    /\ pc = "idle"
    /\ idx = 0
    /\ localInfoYaml = Partial
    /\ result = "none"
    /\ runs = 0
    /\ prior = Snapshot
    /\ created = {}
    /\ rq = NoCall
    /\ OthersAtRest

-----------------------------------------------------------------------------
(* MaybeUnpackRecoveryTarball, step by step *)

\* return from MaybeUnpackRecoveryTarball with res
Return(res) ==
    /\ pc' = "idle"
    /\ result' = res
    /\ idx' = 0
    /\ localInfoYaml' = Partial

\* The daemon starts and calls MaybeUnpackRecoveryTarball: os.Stat(tarballPath),
\* then unpackTarball up to os.MkdirAll(destRoot)
Start ==
    /\ UNCHANGED otherThanRecover
    /\ pc = "idle"
    /\ runs < MaxRuns
    /\ runs' = runs + 1
    /\ prior' = Snapshot
    /\ created' = {}
    /\ rq' = NoCall
    /\ UNCHANGED <<truststore, db, tarball, backups, stray, now>>
    /\ IF ~tarball.exists
       THEN Return("nil") /\ UNCHANGED unpack
       ELSE \E io \in {"ok", "err"} :
              IF io = "err"
              THEN Return("io error") /\ UNCHANGED unpack
              ELSE /\ unpack' = IF unpack.exists THEN unpack ELSE Dir(NoFiles)
                   /\ pc' = "unpack"
                   /\ idx' = 1
                   /\ UNCHANGED <<result, localInfoYaml>>

\* mutant: the file is created and nothing is copied into it
WriteEntry_noCopy(path, c) ==
    LET target == CreateTarget(path) IN
    /\ target # "error"
    /\ unpack' = IF target = "unpack"
                 THEN Dir(Put(unpack.files, Base(path), Data(0))) ELSE unpack
    /\ db' = IF target = "db" THEN Dir(Put(db.files, Base(path), Data(0))) ELSE db
    /\ stray' = IF target = "stray" THEN stray \cup {path} ELSE stray

\* os.Create(filepath) and io.Copy(file, tarReader) of one entry: the file gets
\* content c
WriteEntry(path, c) ==
    LET target == CreateTarget(path) IN
    /\ target # "error"
    /\ unpack' = IF target = "unpack"
                 THEN Dir(Put(unpack.files, Base(path), c)) ELSE unpack
    /\ db' = IF target = "db" THEN Dir(Put(db.files, Base(path), c)) ELSE db
    /\ stray' = IF target = "stray" THEN stray \cup {path} ELSE stray

\* mutant: countWritten is not compared with header.Size
UnpackEntry_sizeUnchecked ==
    /\ UNCHANGED otherThanRecover
    /\ pc = "unpack"
    /\ UNCHANGED <<truststore, tarball, backups, now, runs, prior, rq>>
    /\ IF idx > Len(tarball.entries)
       THEN /\ UNCHANGED <<db, unpack, stray, created>>
            /\ IF tarball.complete
               THEN /\ pc' = "check"
                    /\ UNCHANGED <<idx, result, localInfoYaml>>
               ELSE Return("io error")
       ELSE LET header == tarball.entries[idx]
                filepath == Join(unpackDir, header.Name)
            IN
            \E io \in {"ok", "next", "create", "copy"} :
              IF io = "next"
              THEN Return("io error") /\ UNCHANGED <<db, unpack, stray, created>>
              ELSE IF ContainsDotDot(header.Name)
              THEN Return("invalid sequence") /\ UNCHANGED <<db, unpack, stray, created>>
              ELSE IF io = "create" \/ CreateTarget(filepath) = "error"
              THEN Return("io error") /\ UNCHANGED <<db, unpack, stray, created>>
              ELSE /\ created' = created \cup {[name |-> header.Name, path |-> filepath]}
                   /\ IF io = "copy"
                      THEN WriteEntry(filepath, Partial) /\ Return("mismatched size")
                      ELSE /\ WriteEntry(filepath, header.Body)
                           /\ IF FALSE
                              THEN Return("mismatched size")
                              ELSE /\ idx' = idx + 1
                                   /\ UNCHANGED <<pc, result, localInfoYaml>>

\* unpackTarball: one turn of the loop over the entries of the tarball
UnpackEntry ==
    /\ UNCHANGED otherThanRecover
    /\ pc = "unpack"
    /\ UNCHANGED <<truststore, tarball, backups, now, runs, prior, rq>>
    /\ IF idx > Len(tarball.entries)
       THEN /\ UNCHANGED <<db, unpack, stray, created>>
            /\ IF tarball.complete
               THEN /\ pc' = "check"
                    /\ UNCHANGED <<idx, result, localInfoYaml>>
               ELSE Return("io error")
       ELSE LET header == tarball.entries[idx]
                filepath == Join(unpackDir, header.Name)
            IN
            \E io \in {"ok", "next", "create", "copy"} :
              IF io = "next"
              THEN Return("io error") /\ UNCHANGED <<db, unpack, stray, created>>
              ELSE IF ContainsDotDot(header.Name)
              THEN Return("invalid sequence") /\ UNCHANGED <<db, unpack, stray, created>>
              ELSE IF io = "create" \/ CreateTarget(filepath) = "error"
              THEN Return("io error") /\ UNCHANGED <<db, unpack, stray, created>>
              ELSE /\ created' = created \cup {[name |-> header.Name, path |-> filepath]}
                   /\ IF io = "copy"
                      THEN WriteEntry(filepath, Partial) /\ Return("mismatched size")
                      ELSE /\ WriteEntry(filepath, header.Body)
                           /\ IF SizeOf(header.Body) # header.Size
                              THEN Return("mismatched size")
                              ELSE /\ idx' = idx + 1
                                   /\ UNCHANGED <<pc, result, localInfoYaml>>

RECURSIVE foundFrom(_, _, _)
foundFrom(localID, incomingNodeInfo, i) ==
    IF i > Len(incomingNodeInfo) THEN FALSE
    ELSE IF localID = incomingNodeInfo[i].ID THEN TRUE
    ELSE foundFrom(localID, incomingNodeInfo, i + 1)

\* mutant: any non-empty incoming node list passes
found_nonEmpty(localInfo, incomingNodeInfo) == Len(incomingNodeInfo) > 0

\* whether the local node's ID is in the incoming node list
found(localInfo, incomingNodeInfo) == foundFrom(localInfo.ID, incomingNodeInfo, 1)

\* the sanity checks: the incoming cluster.yaml, the local info.yaml, and the
\* local member's presence in the incoming node list
CheckIncoming ==
    /\ UNCHANGED otherThanRecover
    /\ pc = "check"
    /\ UNCHANGED <<truststore, db, unpack, tarball, backups, stray, now, runs,
                   prior, created, rq>>
    /\ LET incoming == dumpYamlNodeStore(unpack, ClusterYaml)
           local == ReadAt(Append(DatabaseDir, InfoYaml))
       IN
       IF incoming.err THEN Return("invalid cluster.yaml")
       ELSE IF ~local.ok THEN Return("io error")
       ELSE IF local.c.t # "info" THEN Return("invalid info.yaml")
       ELSE IF ~found(local.c, incoming.nodes)
            THEN Return("missing local cluster member")
       ELSE /\ pc' = "writeinfo"
            /\ localInfoYaml' = local.c
            /\ UNCHANGED <<idx, result>>

\* mutant: the local info.yaml is written back to localInfoYamlPath, not into
\* the unpack directory
WriteLocalInfo_wrongPath ==
    /\ UNCHANGED otherThanRecover
    /\ pc = "writeinfo"
    /\ UNCHANGED <<truststore, db, unpack, tarball, backups, stray, now, runs,
                   prior, created, rq>>
    /\ pc' = "backup"
    /\ UNCHANGED <<idx, result, localInfoYaml>>

\* os.WriteFile(recoveryInfoYamlPath, localInfoYaml, 0o664)
WriteLocalInfo ==
    /\ UNCHANGED otherThanRecover
    /\ pc = "writeinfo"
    /\ UNCHANGED <<truststore, db, tarball, backups, stray, now, runs, prior,
                   created, rq>>
    /\ \E io \in {"ok", "open", "write"} :
         IF io = "open" \/ ~unpack.exists
         THEN Return("io error") /\ UNCHANGED unpack
         ELSE IF io = "write"
         THEN /\ unpack' = Dir(Put(unpack.files, InfoYaml, Partial))
              /\ Return("io error")
         ELSE /\ unpack' = Dir(Put(unpack.files, InfoYaml, localInfoYaml))
              /\ pc' = "backup"
              /\ UNCHANGED <<idx, result, localInfoYaml>>

\* time.Now(), to the second: the last reading, or a second later
Clock == {t \in {now, now + 1} : t <= MaxTime}

\* err = CreateDatabaseBackup(filesystem)
Backup ==
    /\ UNCHANGED otherThanRecover
    /\ pc = "backup"
    /\ UNCHANGED <<truststore, db, unpack, tarball, stray, runs, prior, created, rq>>
    /\ \E t \in Clock, f \in TarFailures(BackupFiles) :
         LET made == CreateDatabaseBackup(t, f) IN
         /\ now' = t
         /\ backups' = [backups EXCEPT ![t] = made.archive]
         /\ IF made.err THEN Return("database backup")
            ELSE pc' = "remove" /\ UNCHANGED <<idx, result, localInfoYaml>>

\* err = os.RemoveAll(filesystem.DatabaseDir): the files are unlinked one by
\* one, then the directory; an error leaves any part of them
RemoveDatabase ==
    /\ UNCHANGED otherThanRecover
    /\ pc = "remove"
    /\ UNCHANGED <<truststore, unpack, tarball, backups, stray, now, runs, prior,
                   created, rq>>
    /\ \/ /\ db' = NoDir
          /\ pc' = "rename"
          /\ UNCHANGED <<idx, result, localInfoYaml>>
       \/ /\ db.exists
          /\ \E kept \in SUBSET (DOMAIN db.files) :
               db' = Dir(Restrict(db.files, kept))
          /\ Return("io error")

\* err = os.Rename(unpackDir, filesystem.DatabaseDir)
RenameUnpacked ==
    /\ UNCHANGED otherThanRecover
    /\ pc = "rename"
    /\ UNCHANGED <<truststore, tarball, backups, stray, now, runs, prior, created, rq>>
    /\ \/ /\ unpack.exists
          /\ db' = unpack
          /\ unpack' = NoDir
          /\ pc' = "rmtarball"
          /\ UNCHANGED <<idx, result, localInfoYaml>>
       \/ /\ UNCHANGED <<db, unpack>>
          /\ Return("io error")

\* mutant: the tarball is not removed
RemoveTarball_kept ==
    /\ UNCHANGED otherThanRecover
    /\ pc = "rmtarball"
    /\ UNCHANGED <<truststore, db, unpack, tarball, backups, stray, now, runs,
                   prior, created, rq>>
    /\ Return("nil")

\* err = os.Remove(tarballPath)
RemoveTarball ==
    /\ UNCHANGED otherThanRecover
    /\ pc = "rmtarball"
    /\ UNCHANGED <<truststore, db, unpack, backups, stray, now, runs, prior,
                   created, rq>>
    /\ \/ tarball' = NoArchive /\ Return("nil")
       \/ UNCHANGED tarball /\ Return("io error")

\* recover.RecoverFromQuorumLoss returns res
RecoverReturn(res) ==
    /\ pc' = "idle"
    /\ rq' = [rq EXCEPT !.result = res]

\* the process (the daemon, or the operator's recovery command) is killed, or the
\* machine stops, between two steps
Crash ==
    /\ UNCHANGED otherThanRecover
    /\ pc # "idle"
    /\ UNCHANGED <<truststore, db, unpack, tarball, backups, stray, now, runs,
                   prior, created>>
    /\ IF pc \in {"rq_backup", "rq_rewrite", "rq_tarball"}
       THEN RecoverReturn("crash") /\ UNCHANGED <<idx, localInfoYaml, result>>
       ELSE Return("crash") /\ UNCHANGED rq


-----------------------------------------------------------------------------
(* MicroCluster.RecoverFromQuorumLoss *)

\* The operator's side of the contract of RecoverFromQuorumLoss: the databases
\* are not running, and it is invoked once, before the members are started
\* again, on a member that holds no recovery tarball yet (the tarball is what
\* it creates)
OperatorMayRecover ==
    /\ pc = "idle"
    /\ runs = 0
    /\ ~tarball.exists
    /\ ~rq.called

Call(oldMembers, members, res) ==
    [called |-> TRUE, old |-> oldMembers, members |-> members, result |-> res,
     before |-> [db |-> db, unpack |-> unpack, tarball |-> tarball,
                 backups |-> backups, stray |-> stray]]

\* mutant: the error of ValidateMemberChanges is not returned
RecoverFromQuorumLoss_unvalidated ==
    /\ UNCHANGED otherThanRecover
    /\ OperatorMayRecover
    /\ UNCHANGED <<truststore, db, unpack, tarball, backups, stray, now, idx,
                   localInfoYaml, result, runs, prior, created>>
    /\ \E order \in Orders(truststore), members \in MemberLists :
         LET oldMembers == GetDqliteClusterMembers(order) IN
         IF oldMembers.err
         THEN /\ rq' = Call(oldMembers.members, members, "invalid cluster.yaml")
              /\ UNCHANGED pc
         ELSE /\ rq' = Call(oldMembers.members, members, "pending")
              /\ pc' = "rq_backup"

\* MicroCluster.RecoverFromQuorumLoss(members) up to the call of
\* recover.RecoverFromQuorumLoss
RecoverFromQuorumLoss ==
    /\ UNCHANGED otherThanRecover
    /\ OperatorMayRecover
    /\ UNCHANGED <<truststore, db, unpack, tarball, backups, stray, now, idx,
                   localInfoYaml, result, runs, prior, created>>
    /\ \E order \in Orders(truststore), members \in MemberLists :
         LET oldMembers == GetDqliteClusterMembers(order) IN
         IF oldMembers.err
         THEN /\ rq' = Call(oldMembers.members, members, "invalid cluster.yaml")
              /\ UNCHANGED pc
         ELSE LET err == ValidateMemberChanges(oldMembers.members, members) IN
              IF err # "nil"
              THEN /\ rq' = Call(oldMembers.members, members, err)
                   /\ UNCHANGED pc
              ELSE /\ rq' = Call(oldMembers.members, members, "pending")
                   /\ pc' = "rq_backup"

\* recover.RecoverFromQuorumLoss, step 3: the backup of the database directory
RecoverBackup ==
    /\ UNCHANGED otherThanRecover
    /\ pc = "rq_backup"
    /\ UNCHANGED <<truststore, db, unpack, tarball, stray, idx, localInfoYaml,
                   result, runs, prior, created>>
    /\ \E t \in Clock, f \in TarFailures(BackupFiles) :
         LET made == CreateDatabaseBackup(t, f) IN
         /\ now' = t
         /\ backups' = [backups EXCEPT ![t] = made.archive]
         /\ IF made.err THEN RecoverReturn("database backup")
            ELSE pc' = "rq_rewrite" /\ UNCHANGED rq

\* the node list that reflects members
nodeInfoOf(members) ==
    [i \in 1..Len(members) |->
        NodeInfo(members[i].DqliteID, members[i].Address, members[i].Role)]

\* recover.RecoverFromQuorumLoss, step 4: rewrite the node list on disk
RecoverRewrite ==
    /\ UNCHANGED otherThanRecover
    /\ pc = "rq_rewrite"
    /\ UNCHANGED <<truststore, unpack, tarball, backups, stray, now, idx,
                   localInfoYaml, result, runs, prior, created>>
    /\ \/ /\ db.exists
          /\ db' = Dir(Put(db.files, ClusterYaml, Nodes(nodeInfoOf(rq.members))))
          /\ pc' = "rq_tarball"
          /\ UNCHANGED rq
       \/ /\ UNCHANGED db
          /\ RecoverReturn("io error")

\* recover.RecoverFromQuorumLoss, step 5: CreateRecoveryTarball
RecoverTarball ==
    /\ UNCHANGED otherThanRecover
    /\ pc = "rq_tarball"
    /\ UNCHANGED <<truststore, db, unpack, backups, stray, now, idx,
                   localInfoYaml, result, runs, prior, created>>
    /\ \E f \in TarFailures(RecoveryFiles) :
         LET made == CreateRecoveryTarball(f) IN
         /\ tarball' = made.archive
         /\ RecoverReturn(IF made.err THEN "io error" ELSE "nil")

-----------------------------------------------------------------------------

Next ==
    \/ Start
    \/ UnpackEntry
    \/ CheckIncoming
    \/ WriteLocalInfo
    \/ Backup
    \/ RemoveDatabase
    \/ RenameUnpacked
    \/ RemoveTarball
    \/ Crash
    \/ RecoverFromQuorumLoss
    \/ RecoverBackup
    \/ RecoverRewrite
    \/ RecoverTarball

Spec == Init /\ [][Next]_vars

-----------------------------------------------------------------------------
(* Packing and unpacking: CreateRecoveryTarball applied to any database      *)
(* directory of top-level files, then MaybeUnpackRecoveryTarball applied to *)
(* the tarball it made, then CreateRecoveryTarball again.                   *)

RoundTripFiles ==
    { (ClusterYaml :> Nodes(LocalNodes)), (InfoYaml :> LocalInfo),
      (Metadata :> Data(1)), (Segment :> Data(0)), (Segment :> Data(1)) }

RECURSIVE Merge(_)
Merge(fs) ==
    IF fs = {} THEN NoFiles
    ELSE LET f == CHOOSE x \in fs : TRUE IN f @@ Merge(fs \ {f})

\* the database directories that are packed: any choice of the four files
RoundTripDatabases ==
    { Dir(Merge(fs)) : fs \in { x \in SUBSET RoundTripFiles :
          \A f, g \in x : (DOMAIN f = DOMAIN g) => f = g } }

InitRoundTrip ==
    /\ tarball = NoArchive
    /\ truststore = FullTrustStore
    /\ db \in RoundTripDatabases
    /\ unpack = NoDir
    /\ backups = [t \in 0..MaxTime |-> NoArchive]
    /\ stray = {}
    /\ now = 0
    /\ pc = "idle"
    /\ idx = 0
    /\ localInfoYaml = Partial
    /\ result = "none"
    /\ runs = 0
    /\ prior = Snapshot
    /\ created = {}
    /\ rq = NoCall
    /\ OthersAtRest

\* CreateRecoveryTarball(filesystem) on a member that holds no recovery tarball
Pack ==
    /\ UNCHANGED otherThanRecover
    /\ pc = "idle"
    /\ ~tarball.exists
    /\ \E f \in TarFailures(RecoveryFiles) :
         tarball' = CreateRecoveryTarball(f).archive
    /\ UNCHANGED <<truststore, db, unpack, backups, stray, now, pc, idx,
                   localInfoYaml, result, runs, prior, created, rq>>

NextRoundTrip ==
    \/ Pack
    \/ Start
    \/ UnpackEntry
    \/ CheckIncoming
    \/ WriteLocalInfo
    \/ Backup
    \/ RemoveDatabase
    \/ RenameUnpacked
    \/ RemoveTarball
    \/ Crash

SpecRoundTrip == InitRoundTrip /\ [][NextRoundTrip]_vars

-----------------------------------------------------------------------------
(* The join-token registry.  MicroCluster.NewJoinToken, RevokeJoinToken and  *)
(* JoinCluster are the callers in microcluster/app.go; the registry itself  *)
(* (Issue, Revoke, Consume on the replicated database) follows section 4.D. *)

\* the names of the prospective members
JoinerNames == {"n2", "n3"}

\* the server certificates the joining nodes present
Certs == {"c1", "c2"}

\* the SHA-256 fingerprint of a certificate
Fingerprint(cert) == <<"sha256", cert>>

\* the wire form of a join token, and its parsing
Encode(name, secret) == <<"token", name, secret>>
Decode(token) ==
    IF Len(token) = 3 /\ token[1] = "token"
    THEN [ok |-> TRUE, name |-> token[2], secret |-> token[3]]
    ELSE [ok |-> FALSE]

TokenRecord(name, secret, expired) ==
    [name |-> name, secret |-> secret, expired |-> expired]

\* Issue(name): whether the registry refuses to issue a token for name
IssueRefused(name) ==
    \/ \E r \in tokenRecords : r.name = name
    \/ \E r \in clusterRemotes : r.name = name

tokenRest == <<recoverVars, certVars, shutdownVars, clientVars, listenVars,
              dqliteMembers>>

\* MicroCluster.NewJoinToken(ctx, name): c.RequestToken, served by Issue
NewJoinToken ==
    /\ secrets < MaxTokens
    /\ \E name \in JoinerNames :
         /\ ~IssueRefused(name)
         /\ secrets' = secrets + 1
         /\ tokenRecords' = tokenRecords \cup {TokenRecord(name, secrets + 1, FALSE)}
         /\ issued' = issued \cup {Encode(name, secrets + 1)}
    /\ UNCHANGED <<clusterRemotes, joins, consumeLog>>
    /\ UNCHANGED tokenRest

\* the expiry of a record passes
Expire ==
    /\ \E r \in tokenRecords :
         /\ ~r.expired
         /\ tokenRecords' = (tokenRecords \ {r}) \cup {[r EXCEPT !.expired = TRUE]}
    /\ UNCHANGED <<clusterRemotes, secrets, issued, joins, consumeLog>>
    /\ UNCHANGED tokenRest

\* MicroCluster.RevokeJoinToken(ctx, name): c.DeleteTokenRecord, served by Revoke
RevokeJoinToken ==
    /\ \E r \in tokenRecords : tokenRecords' = tokenRecords \ {r}
    /\ UNCHANGED <<clusterRemotes, secrets, issued, joins, consumeLog>>
    /\ UNCHANGED tokenRest

\* MicroCluster.JoinCluster(ctx, name, address, token, initConfig) on a joining
\* node: the control request with the join token is sent
JoinCluster ==
    /\ \E j \in Joiners, token \in issued \cup {<<>>}, cert \in Certs :
         /\ joins[j].pc = "idle"
         /\ joins' = [joins EXCEPT ![j] =
                         [pc |-> "sent", JoinToken |-> token, cert |-> cert]]
    /\ UNCHANGED <<tokenRecords, clusterRemotes, secrets, issued, consumeLog>>
    /\ UNCHANGED tokenRest

\* the record a token names, if the registry holds it, has not expired, and the
\* secret matches
Matching(token) ==
    LET t == Decode(token) IN
    IF ~t.ok THEN {}
    ELSE {r \in tokenRecords : r.name = t.name /\ r.secret = t.secret /\ ~r.expired}

Outcome(j, res) ==
    /\ joins' = [joins EXCEPT ![j] = [@ EXCEPT !.pc = "done"] @@ [result |-> res]]
    /\ consumeLog' = Append(consumeLog,
                            [joiner |-> j, token |-> joins[j].JoinToken, result |-> res])

\* mutant: the transaction inserts the Remote and leaves the record
Consume_recordKept ==
    /\ \E j \in Joiners :
         /\ joins[j].pc = "sent"
         /\ \E io \in {"ok", "err"} :
              LET matching == Matching(joins[j].JoinToken)
                  fp == Fingerprint(joins[j].cert)
              IN
              IF io = "err"
              THEN Outcome(j, "Internal") /\ UNCHANGED <<tokenRecords, clusterRemotes>>
              ELSE IF matching = {} \/ (\E r \in clusterRemotes : r.fingerprint = fp)
              THEN Outcome(j, "InvalidToken") /\ UNCHANGED <<tokenRecords, clusterRemotes>>
              ELSE /\ UNCHANGED tokenRecords
                   /\ clusterRemotes' = clusterRemotes \cup
                         {[name |-> Decode(joins[j].JoinToken).name, fingerprint |-> fp]}
                   /\ Outcome(j, "nil")
    /\ UNCHANGED <<secrets, issued>>
    /\ UNCHANGED tokenRest

\* Consume(envelope, presentedCert), one transaction on the replicated database:
\* the checks, then the delete of the record and the insert of the Remote; any
\* failure aborts the transaction
Consume ==
    /\ \E j \in Joiners :
         /\ joins[j].pc = "sent"
         /\ \E io \in {"ok", "err"} :
              LET matching == Matching(joins[j].JoinToken)
                  fp == Fingerprint(joins[j].cert)
              IN
              IF io = "err"
              THEN Outcome(j, "Internal") /\ UNCHANGED <<tokenRecords, clusterRemotes>>
              ELSE IF matching = {} \/ (\E r \in clusterRemotes : r.fingerprint = fp)
              THEN Outcome(j, "InvalidToken") /\ UNCHANGED <<tokenRecords, clusterRemotes>>
              ELSE /\ tokenRecords' = tokenRecords \ matching
                   /\ clusterRemotes' = clusterRemotes \cup
                         {[name |-> Decode(joins[j].JoinToken).name, fingerprint |-> fp]}
                   /\ Outcome(j, "nil")
    /\ UNCHANGED <<secrets, issued>>
    /\ UNCHANGED tokenRest

\* a cluster of active members with no token issued; no recovery is under way
InitToken ==
    /\ tarball = NoArchive
    /\ truststore = FullTrustStore
    /\ db = FullDatabase
    /\ unpack = NoDir
    /\ backups = [t \in 0..MaxTime |-> NoArchive]
    /\ stray = {}
    /\ now = 0
    /\ pc = "idle"
    /\ idx = 0
    /\ localInfoYaml = Partial
    /\ result = "none"
    /\ runs = 0
    /\ prior = Snapshot
    /\ created = {}
    /\ rq = NoCall
    /\ OthersAtRest

NextToken ==
    \/ NewJoinToken
    \/ Expire
    \/ RevokeJoinToken
    \/ JoinCluster
    \/ Consume

SpecToken == InitToken /\ [][NextToken]_vars

-----------------------------------------------------------------------------
(* PUT cluster/certificates/{name}: clusterCertificatesPut, run by every     *)
(* member.  A client sends an update to Receiver; the fan-out makes the     *)
(* other members run the same handler on a notification.                    *)

Backslash == "\\"

\* mutant: the endpoint is not allowed before the daemon is initialized
clusterCertificatesCmd_afterInit ==
    [AllowedBeforeInit |-> FALSE, Path |-> "cluster/certificates/{name}"]

clusterCertificatesCmd ==
    [AllowedBeforeInit |-> TRUE, Path |-> "cluster/certificates/{name}"]

\* whether pem.Decode(data) finds a block
PemBlock(data) == data.t = "pem"

\* strings.Contains(name, "/") || strings.Contains(name, "\\") ||
\* strings.Contains(name, "..")
NameIsPath(name) ==
    \/ \E i \in 1..Len(name) : name[i] = Slash
    \/ \E i \in 1..Len(name) : name[i] = Backslash
    \/ ContainsDotDot(name)

\* mutant: the update is forwarded whether or not the database is open
ShouldForward_ignoringDatabase(notification, isOpenErr) == ~notification

\* mutant: a notification is forwarded like any other request
ShouldForward_notifications(notification, isOpenErr) == ~isOpenErr

\* !client.IsNotification(r) && err == nil
ShouldForward(notification, isOpenErr) == ~notification /\ ~isOpenErr

\* mutant: every certificate is taken for the cluster certificate
IsClusterCertificate_any(name) == TRUE

\* certificateName == "cluster"
IsClusterCertificate(name) == name = ClusterName

\* types.ClusterCertificatePut, with the name of the URL and the notification
\* tag of the request
CertificatePut(name, ca, crt, key, notification) ==
    [name |-> name, CA |-> ca, PublicKey |-> crt, PrivateKey |-> key,
     notification |-> notification]

\* the requests of the k-th update: well-formed ones with and without a CA,
\* ones whose certificate, key or CA is no PEM, and ones whose name is a path
ClientRequests(k) ==
    { CertificatePut(n, ca, Pem("crt", k), Pem("key", k), nt) :
        n \in CertNames, ca \in {Empty, Pem("ca", k)}, nt \in BOOLEAN }
    \cup
    { CertificatePut(ClusterName, r[1], r[2], r[3], nt) :
        r \in { <<Empty, Garbage, Pem("key", k)>>,
                <<Empty, Pem("crt", k), Garbage>>,
                <<Garbage, Pem("crt", k), Pem("key", k)>> },
        nt \in BOOLEAN }
    \cup
    { CertificatePut(n, Pem("ca", k), Pem("crt", k), Pem("key", k), nt) :
        n \in { <<Dot, Dot, Slash, "cluster">>, <<"a", Backslash, "b">> },
        nt \in BOOLEAN }

Received(req) ==
    [pc |-> "received", req |-> req, resp |-> "none", written |-> {},
     reloads |-> 0]

\* the handler of m returns the response res
Respond(m, res) ==
    handler' = [handler EXCEPT ![m] = [@ EXCEPT !.pc = "done", !.resp = res]]

certRest == <<recoverVars, tokenVars, shutdownVars, clientVars, listenVars,
             dqliteMembers>>

\* MicroCluster.UpdateCertificate: a client sends PUT
\* cluster/certificates/{name} to Receiver, once the update before it has been
\* answered
UpdateCertificate ==
    /\ updates < MaxUpdates
    /\ \A m \in Members : handler[m].pc \in {"idle", "done"}
    /\ \E req \in ClientRequests(updates + 1) :
         handler' = [m \in Members |->
                        IF m = Receiver THEN Received(req) ELSE NoRequest]
    /\ updates' = updates + 1
    /\ forwards' = [m \in Members |-> 0]
    /\ certPrior' = certFiles
    /\ UNCHANGED <<phase, dbOpen, certFiles, loaded>>
    /\ UNCHANGED certRest

\* s.Cluster(true): the members other than m
ClusterOf(m) == Others(m)

\* clusterCertificatesPut up to the fan-out: the endpoint's phase, IsOpen, and
\* cluster.Query sending the update to every other member
clusterCertificatesPut(m) ==
    /\ handler[m].pc = "received"
    /\ LET req == handler[m].req
           isOpenErr == ~dbOpen[m]
       IN
       IF phase[m] = "PreInit" /\ ~clusterCertificatesCmd.AllowedBeforeInit
       THEN Respond(m, "unavailable") /\ UNCHANGED forwards
       ELSE IF ShouldForward(req.notification, isOpenErr)
       THEN \E io \in {"ok", "err"} :
              IF io = "err"
              THEN Respond(m, "error") /\ UNCHANGED forwards
              ELSE /\ handler' = [p \in Members |->
                        IF p \in ClusterOf(m)
                        THEN Received([req EXCEPT !.notification = TRUE])
                        ELSE IF p = m THEN [handler[m] EXCEPT !.pc = "query"]
                        ELSE handler[p]]
                   /\ forwards' = [p \in Members |->
                        IF p \in ClusterOf(m) THEN forwards[p] + 1 ELSE forwards[p]]
       ELSE /\ handler' = [handler EXCEPT ![m].pc = "validate"]
            /\ UNCHANGED forwards
    /\ UNCHANGED <<phase, dbOpen, certFiles, loaded, updates, certPrior>>
    /\ UNCHANGED certRest

\* the error of cluster.Query: the error of any member
QueryError(m) == \E p \in ClusterOf(m) : handler[p].resp # "ok"

\* cluster.Query returns, after every member has answered or failed
QueryDone(m) ==
    /\ handler[m].pc = "query"
    /\ \A p \in ClusterOf(m) : handler[p].pc = "done"
    /\ IF QueryError(m)
       THEN Respond(m, "error")
       ELSE handler' = [handler EXCEPT ![m].pc = "validate"]
    /\ UNCHANGED <<phase, dbOpen, certFiles, loaded, forwards, updates, certPrior>>
    /\ UNCHANGED certRest

\* mutant: the CA is written as it comes
Validate_caUnchecked(m) ==
    /\ handler[m].pc = "validate"
    /\ LET req == handler[m].req IN
       IF ~PemBlock(req.PublicKey) THEN Respond(m, "bad request")
       ELSE IF ~PemBlock(req.PrivateKey) THEN Respond(m, "bad request")
       ELSE IF NameIsPath(req.name) THEN Respond(m, "bad request")
       ELSE IF req.CA # Empty
            THEN handler' = [handler EXCEPT ![m].pc = "writeca"]
       ELSE handler' = [handler EXCEPT ![m].pc = "writecrt"]
    /\ UNCHANGED <<phase, dbOpen, certFiles, loaded, forwards, updates, certPrior>>
    /\ UNCHANGED certRest

\* the checks of the certificate, the key, the name and the CA
Validate(m) ==
    /\ handler[m].pc = "validate"
    /\ LET req == handler[m].req IN
       IF ~PemBlock(req.PublicKey) THEN Respond(m, "bad request")
       ELSE IF ~PemBlock(req.PrivateKey) THEN Respond(m, "bad request")
       ELSE IF NameIsPath(req.name) THEN Respond(m, "bad request")
       ELSE IF req.CA # Empty
            THEN IF ~PemBlock(req.CA) THEN Respond(m, "bad request")
                 ELSE handler' = [handler EXCEPT ![m].pc = "writeca"]
       ELSE handler' = [handler EXCEPT ![m].pc = "writecrt"]
    /\ UNCHANGED <<phase, dbOpen, certFiles, loaded, forwards, updates, certPrior>>
    /\ UNCHANGED certRest

\* os.WriteFile(path, data, perm): it succeeds, or fails to open the file, or
\* fails after it has truncated the file
WriteFileOutcomes == {"ok", "open", "write"}
AfterWriteFile(old, data, io) ==
    IF io = "ok" THEN data ELSE IF io = "open" THEN old ELSE Partial

\* the handler of m writes data to <name>.<file> and goes on to next
WriteFile(m, file, data, next, io) ==
    /\ certFiles' = [certFiles EXCEPT ![m][handler[m].req.name][file] =
                         AfterWriteFile(@, data, io)]
    /\ IF io = "ok"
       THEN handler' = [handler EXCEPT ![m] =
                [@ EXCEPT !.pc = next, !.written = @ \cup {file},
                          !.resp = IF next = "done" THEN "ok" ELSE @]]
       ELSE Respond(m, "error")

\* os.WriteFile of <name>.ca
WriteCA(m) ==
    /\ handler[m].pc = "writeca"
    /\ \E io \in WriteFileOutcomes :
         WriteFile(m, "ca", handler[m].req.CA, "writecrt", io)
    /\ UNCHANGED <<phase, dbOpen, loaded, forwards, updates, certPrior>>
    /\ UNCHANGED certRest

\* os.WriteFile of <name>.crt
WriteCrt(m) ==
    /\ handler[m].pc = "writecrt"
    /\ \E io \in WriteFileOutcomes :
         WriteFile(m, "crt", handler[m].req.PublicKey, "writekey", io)
    /\ UNCHANGED <<phase, dbOpen, loaded, forwards, updates, certPrior>>
    /\ UNCHANGED certRest

\* mutant: the key is not written
WriteKey_skipped(m) ==
    /\ handler[m].pc = "writekey"
    /\ handler' = [handler EXCEPT ![m] =
           [@ EXCEPT !.pc = IF IsClusterCertificate(handler[m].req.name)
                            THEN "reload" ELSE "done",
                     !.written = @ \cup {"key"},
                     !.resp = IF IsClusterCertificate(handler[m].req.name)
                              THEN @ ELSE "ok"]]
    /\ UNCHANGED <<phase, dbOpen, certFiles, loaded, forwards, updates, certPrior>>
    /\ UNCHANGED certRest

\* os.WriteFile of <name>.key, then the choice of reloading
WriteKey(m) ==
    /\ handler[m].pc = "writekey"
    /\ \E io \in WriteFileOutcomes :
         WriteFile(m, "key", handler[m].req.PrivateKey,
                   IF IsClusterCertificate(handler[m].req.name) THEN "reload" ELSE "done",
                   io)
    /\ UNCHANGED <<phase, dbOpen, loaded, forwards, updates, certPrior>>
    /\ UNCHANGED certRest

\* state.ReloadClusterCert(): the cluster keypair is loaded from the state
\* directory of m
ReloadClusterCert(m) ==
    /\ handler[m].pc = "reload"
    /\ \E io \in {"ok", "err"} :
         /\ loaded' = IF io = "err" THEN loaded
                       ELSE [loaded EXCEPT ![m] =
                               [crt |-> certFiles[m][ClusterName].crt,
                                key |-> certFiles[m][ClusterName].key]]
         /\ handler' = [handler EXCEPT ![m] =
                [@ EXCEPT !.pc = "done", !.reloads = @ + 1,
                          !.resp = IF io = "err" THEN "error" ELSE "ok"]]
    /\ UNCHANGED <<phase, dbOpen, certFiles, forwards, updates, certPrior>>
    /\ UNCHANGED certRest

\* the daemon of m stops while it handles the update, or cannot be reached
CertCrash(m) ==
    /\ handler[m].pc \notin {"idle", "done"}
    /\ Respond(m, "crashed")
    /\ UNCHANGED <<phase, dbOpen, certFiles, loaded, forwards, updates, certPrior>>
    /\ UNCHANGED certRest

\* no recovery is under way
RecoveryAtRest ==
    /\ tarball = NoArchive
    /\ truststore = FullTrustStore
    /\ db = FullDatabase
    /\ unpack = NoDir
    /\ backups = [t \in 0..MaxTime |-> NoArchive]
    /\ stray = {}
    /\ now = 0
    /\ pc = "idle"
    /\ idx = 0
    /\ localInfoYaml = Partial
    /\ result = "none"
    /\ runs = 0
    /\ prior = Snapshot
    /\ created = {}
    /\ rq = NoCall

\* Receiver has not been initialized yet (no database exists), or it is an
\* active member whose database is open or offline; the other members are
\* active
InitCert ==
    /\ RecoveryAtRest
    /\ TokensAtRest
    /\ ServerAtRest
    /\ ClientAtRest
    /\ SocketAtRest
    /\ phase \in {[m \in Members |-> IF m = Receiver THEN ph ELSE "Active"] :
                    ph \in {"PreInit", "Active"}}
    /\ dbOpen \in {[m \in Members |-> IF m = Receiver THEN open ELSE TRUE] :
                    open \in (IF phase[Receiver] = "PreInit"
                              THEN {FALSE} ELSE BOOLEAN)}
    /\ certFiles = [m \in Members |-> [n \in CertNames |-> InstalledFiles]]
    /\ loaded = [m \in Members |-> [crt |-> Pem("crt", 0), key |-> Pem("key", 0)]]
    /\ handler = [m \in Members |-> NoRequest]
    /\ forwards = [m \in Members |-> 0]
    /\ updates = 0
    /\ certPrior = certFiles

NextCert ==
    \/ UpdateCertificate
    \/ \E m \in Members : clusterCertificatesPut(m)
    \/ \E m \in Members : QueryDone(m)
    \/ \E m \in Members : Validate(m)
    \/ \E m \in Members : WriteCA(m)
    \/ \E m \in Members : WriteCrt(m)
    \/ \E m \in Members : WriteKey(m)
    \/ \E m \in Members : ReloadClusterCert(m)
    \/ \E m \in Members : CertCrash(m)

SpecCert == InitCert /\ [][NextCert]_vars

-----------------------------------------------------------------------------
(* Shutting down an http.Server: shutdownServer and gracefulShutdownServer   *)
(* (internal/endpoints/util.go) and Socket.Close.                           *)

Timeouts == 0..MaxTimeout

\* what closing the listeners of the server returns
ListenerErrors == {"nil", "EINVAL", "error"}

\* server.Close() on the connections: all of them are closed, the active ones
\* in the middle of their requests
closeAll(cs) ==
    [c \in Conns |-> IF cs[c] = "active" THEN "forced"
                     ELSE IF cs[c] = "idle" THEN "closed" ELSE cs[c]]

\* server.Shutdown on the connections: the idle ones are closed
closeIdle(cs) ==
    [c \in Conns |-> IF cs[c] = "idle" THEN "closed" ELSE cs[c]]

\* if errors.Is(err, syscall.EINVAL) { return nil }; return err
CloseResult(err) == IF err = "EINVAL" THEN "nil" ELSE err

\* mutant: a lazy shutdown is never forced
forceShutdown_unlessLazy(timeout, lazyShutdown) == timeout = 0 /\ ~lazyShutdown

\* if timeout == 0: force the shutdown, lazy or not
forceShutdown(timeout, lazyShutdown) == timeout = 0

\* mutant: the goroutine gets the context of the caller
lazyShutdownContext_parent(ctx) == ctx

\* the context the goroutine of a lazy shutdown gets: context.Background()
lazyShutdownContext(ctx) == "background"

\* whether context.WithTimeout(d.ctx, d.timeout) is done
ContextDone(d) ==
    \/ elapsed >= d.timeout
    \/ d.ctx = "caller" /\ callerCtx = "cancelled"

Draining(ctx, timeout) ==
    [pc |-> "start", ctx |-> ctx, timeout |-> timeout, lnerr |-> "nil",
     ret |-> "none"]

Called(fn, timeout, lazy, caller, at, ret) ==
    [pc |-> at, fn |-> fn, timeout |-> timeout, lazy |-> lazy,
     caller |-> caller, ret |-> ret]

shutdownRest == <<recoverVars, tokenVars, certVars, clientVars, listenVars,
                 dqliteMembers>>

\* shutdownServer(ctx, server, timeout, lazyShutdown), called by the daemon or
\* by the handler of the request on Trigger
shutdownServer ==
    /\ call.pc = "idle"
    /\ \E timeout \in Timeouts, lazy \in BOOLEAN, caller \in {"daemon", "handler"},
          err \in ListenerErrors :
         /\ caller = "handler" => conns[Trigger] = "active"
         /\ IF forceShutdown(timeout, lazy)
            THEN /\ listening' = FALSE
                 /\ conns' = closeAll(conns)
                 /\ call' = Called("shutdownServer", timeout, lazy, caller, "done",
                                   CloseResult(err))
                 /\ UNCHANGED <<drain, tasks>>
            ELSE IF lazy
            THEN /\ drain' = [drain EXCEPT !["bg"] =
                                 Draining(lazyShutdownContext("caller"), timeout)]
                 /\ tasks' = tasks + 1
                 /\ call' = Called("shutdownServer", timeout, lazy, caller, "done", "nil")
                 /\ UNCHANGED <<listening, conns>>
            ELSE /\ drain' = [drain EXCEPT !["call"] = Draining("caller", timeout)]
                 /\ call' = Called("shutdownServer", timeout, lazy, caller,
                                   "graceful", "none")
                 /\ UNCHANGED <<listening, conns, tasks>>
    /\ UNCHANGED <<listener, socketCtx, callerCtx, elapsed>>
    /\ UNCHANGED shutdownRest

\* mutant: the listener keeps accepting until server.Shutdown closes it
SocketClose_listenerLeftOpen ==
    /\ call.pc = "idle"
    /\ \E timeout \in Timeouts, caller \in {"daemon", "handler"},
          io \in {"ok", "err"}, err \in ListenerErrors :
         /\ caller = "handler" => conns[Trigger] = "active"
         /\ IF listener = "nil"
            THEN /\ call' = Called("Socket.Close", timeout, FALSE, caller, "done", "nil")
                 /\ UNCHANGED <<listener, socketCtx, listening, conns, drain>>
            ELSE /\ socketCtx' = "cancelled"
                 /\ IF io = "err"
                    THEN /\ call' = Called("Socket.Close", timeout, FALSE, caller,
                                           "done", "error")
                         /\ UNCHANGED <<listener, listening, conns, drain>>
                    ELSE /\ listener' = "closed"
                         /\ listening' = (timeout # 0 /\ listening)
                         /\ IF timeout = 0
                            THEN /\ conns' = closeAll(conns)
                                 /\ call' = Called("Socket.Close", timeout, FALSE,
                                                   caller, "done", CloseResult(err))
                                 /\ UNCHANGED drain
                            ELSE /\ drain' = [drain EXCEPT !["call"] =
                                                 Draining("background", timeout)]
                                 /\ call' = Called("Socket.Close", timeout, FALSE,
                                                   caller, "graceful", "none")
                                 /\ UNCHANGED conns
    /\ UNCHANGED <<callerCtx, elapsed, tasks>>
    /\ UNCHANGED shutdownRest

\* Socket.Close()
SocketClose ==
    /\ call.pc = "idle"
    /\ \E timeout \in Timeouts, caller \in {"daemon", "handler"},
          io \in {"ok", "err"}, err \in ListenerErrors :
         /\ caller = "handler" => conns[Trigger] = "active"
         /\ IF listener = "nil"
            THEN /\ call' = Called("Socket.Close", timeout, FALSE, caller, "done", "nil")
                 /\ UNCHANGED <<listener, socketCtx, listening, conns, drain>>
            ELSE /\ socketCtx' = "cancelled"
                 /\ IF io = "err"
                    THEN /\ call' = Called("Socket.Close", timeout, FALSE, caller,
                                           "done", "error")
                         /\ UNCHANGED <<listener, listening, conns, drain>>
                    ELSE /\ listener' = "closed"
                         /\ listening' = FALSE
                         /\ IF timeout = 0
                            THEN /\ conns' = closeAll(conns)
                                 /\ call' = Called("Socket.Close", timeout, FALSE,
                                                   caller, "done", CloseResult(err))
                                 /\ UNCHANGED drain
                            ELSE /\ drain' = [drain EXCEPT !["call"] =
                                                 Draining("background", timeout)]
                                 /\ call' = Called("Socket.Close", timeout, FALSE,
                                                   caller, "graceful", "none")
                                 /\ UNCHANGED conns
    /\ UNCHANGED <<callerCtx, elapsed, tasks>>
    /\ UNCHANGED shutdownRest

\* server.Shutdown(shutdownCtx) begins: the window opens and the listeners are
\* closed
Shutdown(t) ==
    /\ drain[t].pc = "start"
    /\ \E err \in ListenerErrors :
         drain' = [drain EXCEPT ![t] = [@ EXCEPT !.pc = "poll", !.lnerr = err]]
    /\ listening' = FALSE
    /\ elapsed' = 0
    /\ UNCHANGED <<listener, socketCtx, conns, callerCtx, call, tasks>>
    /\ UNCHANGED shutdownRest

\* the graceful shutdown run by t returns ret
Returned(t, ret) ==
    /\ drain' = [drain EXCEPT ![t] = [@ EXCEPT !.pc = "done", !.ret = ret]]
    /\ call' = IF t = "call" THEN [call EXCEPT !.pc = "done", !.ret = ret] ELSE call

\* mutant: the server is not closed when server.Shutdown fails
gracefulShutdownServer_noClose(t) ==
    /\ drain[t].pc = "poll"
    /\ LET cs == closeIdle(conns) IN
       IF \A c \in Conns : cs[c] # "active"
       THEN /\ conns' = cs
            /\ Returned(t, IF drain[t].lnerr = "nil" THEN "nil" ELSE "error")
       ELSE IF ContextDone(drain[t])
       THEN /\ conns' = cs
            /\ Returned(t, "error")
       ELSE /\ conns' = cs
            /\ UNCHANGED <<drain, call>>
    /\ UNCHANGED <<listener, socketCtx, listening, callerCtx, elapsed, tasks>>
    /\ UNCHANGED shutdownRest

\* gracefulShutdownServer: one turn of the polling loop of server.Shutdown, and
\* what follows its return: server.Close() if it returned an error
gracefulShutdownServer(t) ==
    /\ drain[t].pc = "poll"
    /\ LET cs == closeIdle(conns) IN
       IF \A c \in Conns : cs[c] # "active"
       THEN /\ conns' = cs
            /\ Returned(t, IF drain[t].lnerr = "nil" THEN "nil" ELSE "error")
       ELSE IF ContextDone(drain[t])
       THEN /\ conns' = closeAll(conns)
            /\ Returned(t, "error")
       ELSE /\ conns' = cs
            /\ UNCHANGED <<drain, call>>
    /\ UNCHANGED <<listener, socketCtx, listening, callerCtx, elapsed, tasks>>
    /\ UNCHANGED shutdownRest

\* the clock of the drain window advances
Tick ==
    /\ \E t \in {"call", "bg"} : drain[t].pc = "poll" /\ elapsed < drain[t].timeout
    /\ elapsed' = elapsed + 1
    /\ UNCHANGED <<listener, socketCtx, listening, conns, callerCtx, call, drain, tasks>>
    /\ UNCHANGED shutdownRest

\* the context of the caller is cancelled
Cancel ==
    /\ callerCtx = "live"
    /\ callerCtx' = "cancelled"
    /\ UNCHANGED <<listener, socketCtx, listening, conns, elapsed, call, drain, tasks>>
    /\ UNCHANGED shutdownRest

\* the server accepts a connection and starts to serve a request on it
Accept ==
    /\ listening
    /\ \E c \in Conns :
         /\ conns[c] = "none"
         /\ conns' = [conns EXCEPT ![c] = "active"]
    /\ UNCHANGED <<listener, socketCtx, listening, callerCtx, elapsed, call, drain, tasks>>
    /\ UNCHANGED shutdownRest

\* the response of a request is written and its connection becomes idle; the
\* handler that called for the shutdown writes its response when the call
\* has returned
Finish ==
    /\ \E c \in Conns :
         /\ conns[c] = "active"
         /\ (c = Trigger /\ call.caller = "handler") => call.pc \in {"idle", "done"}
         /\ conns' = [conns EXCEPT ![c] = "idle"]
    /\ UNCHANGED <<listener, socketCtx, listening, callerCtx, elapsed, call, drain, tasks>>
    /\ UNCHANGED shutdownRest

\* a server that never listened (Socket.listener is nil), or one that listens
InitShutdown ==
    /\ RecoveryAtRest
    /\ TokensAtRest
    /\ CertsAtRest
    /\ ClientAtRest
    /\ SocketAtRest
    /\ listener \in {"nil", "open"}
    /\ socketCtx = "live"
    /\ listening = (listener = "open")
    /\ conns = [c \in Conns |-> "none"]
    /\ callerCtx = "live"
    /\ elapsed = 0
    /\ call = NoShutdown
    /\ drain = [t \in {"call", "bg"} |-> NoDrain]
    /\ tasks = 0

NextShutdown ==
    \/ shutdownServer
    \/ SocketClose
    \/ \E t \in {"call", "bg"} : Shutdown(t)
    \/ \E t \in {"call", "bg"} : gracefulShutdownServer(t)
    \/ Tick
    \/ Cancel
    \/ Accept
    \/ Finish

SpecShutdown == InitShutdown /\ [][NextShutdown]_vars

\* the goroutines run and the clock advances
SpecShutdownFair ==
    /\ SpecShutdown
    /\ WF_vars(\E t \in {"call", "bg"} : Shutdown(t))
    /\ WF_vars(\E t \in {"call", "bg"} : gracefulShutdownServer(t))
    /\ WF_vars(Tick)


-----------------------------------------------------------------------------
(* A client waits for the daemon: MicroCluster.Ready (microcluster/app.go)   *)

clientRest == <<recoverVars, tokenVars, certVars, shutdownVars, listenVars,
               dqliteMembers>>

\* Ready(ctx): the channel is made, the goroutine is started, and the caller
\* goes to its select
Ready ==
    /\ ready.pc = "idle"
    /\ ready' = [pc |-> "select", ret |-> "none"]
    /\ poll' = [pc |-> "connect", i |-> 0, attempts |-> 0]
    /\ finger' = "empty"
    /\ errLast' = "nil"
    /\ UNCHANGED <<daemonState, readyCtx, succeeded, controls>>
    /\ UNCHANGED clientRest

\* c, err := m.LocalClient(), in the goroutine
LocalClient ==
    /\ poll.pc = "connect"
    /\ \E ok \in BOOLEAN :
         IF ok
         THEN /\ poll' = [poll EXCEPT !.pc = "check", !.attempts = @ + 1]
              /\ UNCHANGED errLast
         ELSE /\ poll' = [poll EXCEPT !.pc = "sleep", !.attempts = @ + 1]
              /\ errLast' = "connect"
    /\ UNCHANGED <<daemonState, readyCtx, ready, finger, succeeded, controls>>
    /\ UNCHANGED clientRest

\* what c.CheckReady(ctx) returns: the error of the context when it is done,
\* "not ready" from a daemon before PreInit, or a transport error
CheckReadyResults ==
    IF readyCtx = "done" THEN {"context"}
    ELSE IF daemonState # "PreInit" THEN {"notready", "transport"}
    ELSE {"nil", "transport"}

\* err = c.CheckReady(ctx), in the goroutine; on success: finger <- nil; return
CheckReady ==
    /\ poll.pc = "check"
    /\ \E err \in CheckReadyResults :
         IF err = "nil"
         THEN /\ finger' = "nil"
              /\ succeeded' = TRUE
              /\ poll' = [poll EXCEPT !.pc = "exit", !.attempts = @ + 1]
              /\ UNCHANGED errLast
         ELSE /\ errLast' = err
              /\ poll' = [poll EXCEPT !.pc = "sleep", !.attempts = @ + 1]
              /\ UNCHANGED <<finger, succeeded>>
    /\ UNCHANGED <<daemonState, readyCtx, ready, controls>>
    /\ UNCHANGED clientRest

\* time.Sleep(500 * time.Millisecond); continue
Sleep ==
    /\ poll.pc = "sleep"
    /\ poll.i < MaxAttempts
    /\ poll' = [poll EXCEPT !.pc = "connect", !.i = @ + 1]
    /\ UNCHANGED <<daemonState, readyCtx, ready, finger, errLast, succeeded, controls>>
    /\ UNCHANGED clientRest

\* mutant: Ready returns nil when the context is done
ReadySelect_nilWhenDone ==
    /\ ready.pc = "select"
    /\ \/ /\ finger = "nil"
          /\ finger' = "empty"
          /\ ready' = [pc |-> "returned", ret |-> "nil"]
       \/ /\ readyCtx = "done"
          /\ ready' = [pc |-> "returned", ret |-> "nil"]
          /\ UNCHANGED finger
    /\ UNCHANGED <<daemonState, readyCtx, poll, errLast, succeeded, controls>>
    /\ UNCHANGED clientRest

\* select { case <-finger: ; case <-ctx.Done(): return fmt.Errorf(...) }
\* return nil
ReadySelect ==
    /\ ready.pc = "select"
    /\ \/ /\ finger = "nil"
          /\ finger' = "empty"
          /\ ready' = [pc |-> "returned", ret |-> "nil"]
       \/ /\ readyCtx = "done"
          /\ ready' = [pc |-> "returned", ret |-> "error"]
          /\ UNCHANGED finger
    /\ UNCHANGED <<daemonState, readyCtx, poll, errLast, succeeded, controls>>
    /\ UNCHANGED clientRest

\* the context of the caller of Ready ends
ReadyCtxDone ==
    /\ readyCtx = "live"
    /\ readyCtx' = "done"
    /\ UNCHANGED <<daemonState, ready, poll, finger, errLast, succeeded, controls>>
    /\ UNCHANGED clientRest

\* the daemon reaches PreInit
ReachPreInit ==
    /\ daemonState = "starting"
    /\ daemonState' = "PreInit"
    /\ UNCHANGED <<readyCtx, ready, poll, finger, errLast, succeeded, controls>>
    /\ UNCHANGED clientRest

InitReady ==
    /\ RecoveryAtRest
    /\ OthersAtRest

NextReady ==
    \/ Ready
    \/ LocalClient
    \/ CheckReady
    \/ Sleep
    \/ ReadySelect
    \/ ReadyCtxDone
    \/ ReachPreInit

SpecReady == InitReady /\ [][NextReady]_vars

\* the select of Ready is taken when one of its cases is ready
SpecReadyFair == SpecReady /\ WF_vars(ReadySelect)


-----------------------------------------------------------------------------
(* A client bootstraps or joins: NewCluster and JoinCluster                  *)

\* the addresses the callers pass, as <<host, port>>: one that parses, one
\* without a port, and the empty string
Addresses == {<<"10.0.0.1", "8443">>, <<"10.0.0.1">>, <<>>}
JoinTokens == {"", "token"}
MemberNames == {"n1", "n2"}

\* types.ParseAddrPort(address): the address, or an error
ParseAddrPort(address) ==
    IF Len(address) = 2
    THEN [err |-> "nil", addr |-> [ip |-> address[1], port |-> address[2]]]
    ELSE [err |-> "invalid", addr |-> [ip |-> "", port |-> ""]]

NoControl == [sent |-> FALSE]

\* internalTypes.Control{...} sent by c.ControlDaemon
Control(bootstrap, token, addr, name) ==
    [sent |-> TRUE, Bootstrap |-> bootstrap, JoinToken |-> token,
     Address |-> addr, Name |-> name]

\* one call: its function, its arguments, the request it sent, what it returned
ControlCall(fn, name, address, token, req, ret) ==
    [fn |-> fn, name |-> name, address |-> address, token |-> token,
     req |-> req, ret |-> ret]

\* NewCluster(ctx, name, address, config)
NewCluster ==
    /\ Len(controls) < MaxCalls
    /\ \E name \in MemberNames, address \in Addresses, client \in BOOLEAN,
          reply \in {"nil", "error"} :
         controls' = Append(controls,
            IF ~client
            THEN ControlCall("NewCluster", name, address, "", NoControl, "error")
            ELSE IF ParseAddrPort(address).err # "nil"
            THEN ControlCall("NewCluster", name, address, "", NoControl, "error")
            ELSE ControlCall("NewCluster", name, address, "",
                             Control(TRUE, "", ParseAddrPort(address).addr, name),
                             reply))
    /\ UNCHANGED <<daemonState, readyCtx, ready, poll, finger, errLast, succeeded>>
    /\ UNCHANGED clientRest

\* JoinCluster(ctx, name, address, token, initConfig)
JoinClusterControl ==
    /\ Len(controls) < MaxCalls
    /\ \E name \in MemberNames, address \in Addresses, token \in JoinTokens,
          client \in BOOLEAN, reply \in {"nil", "error"} :
         controls' = Append(controls,
            IF ~client
            THEN ControlCall("JoinCluster", name, address, token, NoControl, "error")
            ELSE IF ParseAddrPort(address).err # "nil"
            THEN ControlCall("JoinCluster", name, address, token, NoControl, "error")
            ELSE ControlCall("JoinCluster", name, address, token,
                             Control(FALSE, token, ParseAddrPort(address).addr, name),
                             reply))
    /\ UNCHANGED <<daemonState, readyCtx, ready, poll, finger, errLast, succeeded>>
    /\ UNCHANGED clientRest

InitControl ==
    /\ RecoveryAtRest
    /\ OthersAtRest

NextControl ==
    \/ NewCluster
    \/ JoinClusterControl

SpecControl == InitControl /\ [][NextControl]_vars


-----------------------------------------------------------------------------
(* Reading the membership: MicroCluster.GetDqliteClusterMembers              *)

\* the Remotes a trust store can hold (their names differ; two of them have
\* the same address) and the entries a node list can hold
RemoteValues == {Remote("n1", "a1"), Remote("n2", "a2"), Remote("n3", "a1")}
NodeValues ==
    {NodeInfo(id, addr, role) :
        id \in {1, 2}, addr \in {"a1", "a2", "a3"}, role \in {"voter", "spare"}}
NodeLists == SeqsUpTo(NodeValues, MaxMembers)

membersRest == <<tokenVars, certVars, shutdownVars, clientVars, listenVars>>

\* MicroCluster.GetDqliteClusterMembers(): recover.GetDqliteClusterMembers on
\* the state directory; the trust store may fail to be read
AskDqliteClusterMembers ==
    /\ \E order \in Orders(truststore), io \in {"ok", "err"} :
         LET got == GetDqliteClusterMembers(order) IN
         dqliteMembers' =
            IF got.err \/ io = "err"
            THEN [called |-> TRUE, err |-> TRUE, members |-> <<>>]
            ELSE [called |-> TRUE, err |-> FALSE, members |-> got.members]
    /\ UNCHANGED recoverVars
    /\ UNCHANGED membersRest

\* a member with any trust store and any node list, or with a cluster.yaml
\* that is no node list, and no recovery under way
InitMembers ==
    /\ tarball = NoArchive
    /\ truststore \in SUBSET RemoteValues
    /\ db \in {Dir((ClusterYaml :> Nodes(list)) @@ (InfoYaml :> LocalInfo)) :
                 list \in NodeLists}
              \cup {Dir((ClusterYaml :> Data(0)) @@ (InfoYaml :> LocalInfo))}
    /\ unpack = NoDir
    /\ backups = [t \in 0..MaxTime |-> NoArchive]
    /\ stray = {}
    /\ now = 0
    /\ pc = "idle"
    /\ idx = 0
    /\ localInfoYaml = Partial
    /\ result = "none"
    /\ runs = 0
    /\ prior = Snapshot
    /\ created = {}
    /\ rq = NoCall
    /\ OthersAtRest

NextMembers == AskDqliteClusterMembers

SpecMembers == InitMembers /\ [][NextMembers]_vars


-----------------------------------------------------------------------------
(* Daemons binding the control socket: Socket.Listen                         *)

listenRest == <<recoverVars, tokenVars, certVars, shutdownVars, clientVars,
                dqliteMembers>>

\* whether a connection to Socket.Path is accepted: the file there belongs to
\* a listener that is open
Reachable == sockFile \in Daemons /\ listen[sockFile].live

\* Socket.Listen of d returns res
Listened(d, res) ==
    listen' = [listen EXCEPT ![d] = [@ EXCEPT !.pc = "done", !.ret = res]]

\* net.Dial("unix", s.Path): Listen returns an error if it connects
Dial(d) ==
    /\ listen[d].pc = "idle"
    /\ IF Reachable
       THEN Listened(d, "already running")
       ELSE listen' = [listen EXCEPT ![d].pc = "removeStale"]
    /\ UNCHANGED sockFile
    /\ UNCHANGED listenRest

\* s.removeStale(): the file at the path, if there is one, is removed
removeStale(d) ==
    /\ listen[d].pc = "removeStale"
    /\ IF sockFile = "none"
       THEN /\ listen' = [listen EXCEPT ![d].pc = "ListenUnix"]
            /\ UNCHANGED sockFile
       ELSE \E io \in {"ok", "err"} :
              IF io = "err"
              THEN Listened(d, "error") /\ UNCHANGED sockFile
              ELSE /\ sockFile' = "none"
                   /\ listen' = [listen EXCEPT ![d].pc = "ListenUnix"]
    /\ UNCHANGED listenRest

\* net.ListenUnix("unix", addr): the socket file is created, unless a file is
\* there
ListenUnix(d) ==
    /\ listen[d].pc = "ListenUnix"
    /\ IF sockFile # "none"
       THEN Listened(d, "error") /\ UNCHANGED sockFile
       ELSE /\ sockFile' = d
            /\ listen' = [listen EXCEPT ![d] = [@ EXCEPT !.pc = "localSetAccess",
                                                         !.live = TRUE]]
    /\ UNCHANGED listenRest

\* localSetAccess(s.Path, s.Group) changes the mode and the owner of the file
\* at the path, and fails if there is none; if it fails the listener is
\* closed, which unlinks the file at the path
localSetAccess(d) ==
    /\ listen[d].pc = "localSetAccess"
    /\ \E io \in (IF sockFile = "none" THEN {"err"} ELSE {"ok", "err"}) :
         IF io = "ok"
         THEN Listened(d, "nil") /\ UNCHANGED sockFile
         ELSE /\ listen' = [listen EXCEPT ![d] =
                    [pc |-> "done", ret |-> "error", live |-> FALSE]]
              /\ sockFile' = "none"
    /\ UNCHANGED listenRest

\* the daemon d ends after Listen has returned: it is killed, and the file at
\* the path is left behind, or it closes its listener, which unlinks the file
\* at the path
Exit(d) ==
    /\ listen[d].pc = "done"
    /\ listen' = [listen EXCEPT ![d] = NotListening]
    /\ \E closed \in BOOLEAN :
         sockFile' = IF closed /\ listen[d].live THEN "none" ELSE sockFile
    /\ UNCHANGED listenRest

\* no daemon runs; a socket file may be left from an earlier one
InitListen ==
    /\ RecoveryAtRest
    /\ TokensAtRest
    /\ CertsAtRest
    /\ ServerAtRest
    /\ ClientAtRest
    /\ dqliteMembers = NotAsked
    /\ sockFile \in {"none", "stale"}
    /\ listen = [d \in Daemons |-> NotListening]

NextListen ==
    \/ \E d \in Daemons : Dial(d)
    \/ \E d \in Daemons : removeStale(d)
    \/ \E d \in Daemons : ListenUnix(d)
    \/ \E d \in Daemons : localSetAccess(d)
    \/ \E d \in Daemons : Exit(d)

SpecListen == InitListen /\ [][NextListen]_vars


-----------------------------------------------------------------------------
(* Recovery retried with another tarball                                     *)

\* the entries of the tarballs an operator tries one after the other: a node
\* list with the local member, one without it, and two data files
RetryEntries ==
    { WellFormed(ClusterYaml, Nodes(<< NodeInfo(1, "a1", "voter"),
                                       NodeInfo(2, "a2", "spare") >>)),
      WellFormed(ClusterYaml, Nodes(<< NodeInfo(2, "a2", "voter") >>)),
      WellFormed(Segment, Data(1)),
      WellFormed(Metadata, Data(1)) }

RetryTarballs ==
    {Archive(es, TRUE) : es \in SeqsUpTo(RetryEntries, MaxEntries) \ {<<>>}}

\* the operator copies another recovery tarball into the state directory
\* while the daemon is stopped
ReplaceTarball ==
    /\ UNCHANGED otherThanRecover
    /\ pc = "idle"
    /\ runs >= 1
    /\ runs < MaxRuns
    /\ \E t \in RetryTarballs \ {tarball} : tarball' = t
    /\ UNCHANGED <<truststore, db, unpack, backups, stray, now, pc, idx,
                   localInfoYaml, result, runs, prior, created, rq>>

\* a member with a complete database to which a recovery tarball was copied
InitRetry ==
    /\ tarball \in RetryTarballs
    /\ truststore = FullTrustStore
    /\ db = FullDatabase
    /\ unpack = NoDir
    /\ backups = [t \in 0..MaxTime |-> NoArchive]
    /\ stray = {}
    /\ now = 0
    /\ pc = "idle"
    /\ idx = 0
    /\ localInfoYaml = Partial
    /\ result = "none"
    /\ runs = 0
    /\ prior = Snapshot
    /\ created = {}
    /\ rq = NoCall
    /\ OthersAtRest

NextRetry ==
    \/ ReplaceTarball
    \/ Start
    \/ UnpackEntry
    \/ CheckIncoming
    \/ WriteLocalInfo
    \/ Backup
    \/ RemoveDatabase
    \/ RenameUnpacked
    \/ RemoveTarball

SpecRetry == InitRetry /\ [][NextRetry]_vars


-----------------------------------------------------------------------------
(* Properties *)

SameIdentity(a, b) ==
    /\ a.DqliteID = b.DqliteID
    /\ a.Name = b.Name
    /\ a.Address = b.Address

EveryNewIsOld(old, new) ==
    /\ Len(new) = Len(old)
    /\ \A i \in 1..Len(new) : \E j \in 1..Len(old) : SameIdentity(new[i], old[j])

ValidationErrors ==
    {"members cannot be added or removed", "ID or address changed for member"}

Validated == rq.called /\ rq.result \notin (ValidationErrors \cup {"invalid cluster.yaml"})

Identities(members) ==
    {<<members[i].DqliteID, members[i].Name, members[i].Address>> :
        i \in 1..Len(members)}

\* C1: ValidateMemberChanges(old, new) succeeds if and only if new is as long
\* as old and every entry of new equals some entry of old on ID, name and
\* address; roles are not compared.
C1_ValidateIff ==
    (rq.called /\ rq.result # "invalid cluster.yaml")
        => (rq.result \notin ValidationErrors <=> EveryNewIsOld(rq.old, rq.members))

\* C1 witness: a list that only changes a role has been accepted
C1_RoleChangeAccepted ==
    /\ Validated
    /\ Len(rq.members) = 2
    /\ \E i \in 1..Len(rq.members) : \A j \in 1..Len(rq.old) :
         rq.members[i].Role # rq.old[j].Role

\* C2 (as claimed): whenever validation succeeds, the members of new, by ID,
\* name and address, are exactly the members of old: no member is dropped.
C2_NoMemberDropped ==
    Validated => Identities(rq.members) = Identities(rq.old)

FilesNow ==
    [db |-> db, unpack |-> unpack, tarball |-> tarball, backups |-> backups,
     stray |-> stray]

\* C3: RecoverFromQuorumLoss with a list that fails validation returns an error
\* and writes nothing: no backup, the node list unchanged, no recovery tarball.
C3_InvalidWritesNothing ==
    (rq.called /\ ~EveryNewIsOld(rq.old, rq.members))
        => /\ rq.result \in ValidationErrors
           /\ pc = "idle"
           /\ FilesNow = rq.before

\* C3 witness: a list of the right length with a changed member was rejected
C3_ChangedMemberRejected ==
    /\ rq.called
    /\ Len(rq.members) = Len(rq.old)
    /\ Len(rq.old) = 2
    /\ rq.result = "ID or address changed for member"

EntryNames(archive) == {archive.entries[i].Name : i \in 1..Len(archive.entries)}

\* C4: the recovery tarball made by CreateRecoveryTarball holds every file of
\* the database directory except info.yaml, and never an entry info.yaml.
C4_TarballExcludesInfoYaml ==
    /\ (rq.called /\ pc = "idle") => InfoYaml \notin EntryNames(tarball)
    /\ (rq.called /\ rq.result = "nil")
        => /\ tarball.exists /\ tarball.complete
           /\ EntryNames(tarball) = (DOMAIN db.files) \ {InfoYaml}
           /\ Len(tarball.entries) = Cardinality(EntryNames(tarball))
           /\ \A i \in 1..Len(tarball.entries) :
                tarball.entries[i].Body = db.files[tarball.entries[i].Name]

\* C4 witness: a tarball was made of a directory that holds info.yaml and a
\* file sorted after it
C4_TarballMade ==
    /\ rq.called /\ rq.result = "nil"
    /\ InfoYaml \in DOMAIN db.files
    /\ Segment \in EntryNames(tarball)

UnpackSucceeded ==
    /\ runs > 0
    /\ pc = "idle"
    /\ result = "nil"
    /\ prior.tarball.exists

\* C5: after MaybeUnpackRecoveryTarball succeeds, info.yaml in the database
\* directory is what it was before the unpack, whatever the tarball holds.
C5_InfoYamlPreserved ==
    UnpackSucceeded
        => /\ HasFile(prior.db, InfoYaml)
           /\ HasFile(db, InfoYaml)
           /\ db.files[InfoYaml] = prior.db.files[InfoYaml]

\* C5 witness: the unpack succeeded on a tarball that carries another node's
\* info.yaml
C5_ForeignInfoUnpacked ==
    /\ UnpackSucceeded
    /\ \E i \in 1..Len(prior.tarball.entries) :
         /\ prior.tarball.entries[i].Name = InfoYaml
         /\ prior.tarball.entries[i].Body # db.files[InfoYaml]

HasTwoDots(name) ==
    \E i \in 1..Len(name) : i < Len(name) /\ name[i] = "." /\ name[i + 1] = "."

\* C6: unpacking creates no file outside the unpack directory: no file is
\* created for an entry whose name contains "..", and every file created for
\* another entry lies under the unpack directory.
C6_NoWriteOutsideUnpackDir ==
    /\ stray = {}
    /\ \A c \in created : ~HasTwoDots(c.name) /\ IsUnder(c.path, unpackDir)
    /\ pc = "unpack" => db = prior.db

\* C6 witness: a file was unpacked, then an entry with ".." stopped the unpack
C6_DotDotRejected ==
    /\ pc = "idle"
    /\ result = "invalid sequence"
    /\ created # {}
    /\ \E i \in 1..Len(tarball.entries) :
         tarball.entries[i].Name = <<"seg", "/", ".", ".", "/", "seg">>

\* C7: if the local node's ID is not in the node list of the incoming tarball,
\* MaybeUnpackRecoveryTarball aborts with an error; the database directory is
\* unchanged, no backup is taken, the tarball is kept.
C7_MissingLocalMemberAborts ==
    /\ pc \in {"writeinfo", "backup", "remove"}
        => /\ HasFile(unpack, ClusterYaml)
           /\ unpack.files[ClusterYaml].t = "nodes"
           /\ \E i \in 1..Len(unpack.files[ClusterYaml].nodes) :
                unpack.files[ClusterYaml].nodes[i].ID = localInfoYaml.ID
    /\ (pc = "idle" /\ result = "missing local cluster member")
        => /\ db = prior.db
           /\ backups = prior.backups
           /\ tarball = prior.tarball
           /\ tarball.exists

\* C7 witness: the unpack was aborted on a node list without the local node
C7_Aborted ==
    /\ pc = "idle"
    /\ result = "missing local cluster member"
    /\ HasFile(unpack, ClusterYaml)
    /\ Len(unpack.files[ClusterYaml].nodes) > 0

\* C8: a successful MaybeUnpackRecoveryTarball has deleted the tarball, and a
\* call that finds no tarball returns without touching the database directory
\* or taking a backup.
C8_UnpackedOnce ==
    /\ UnpackSucceeded => ~tarball.exists
    /\ (runs > 0 /\ ~prior.tarball.exists)
        => /\ pc = "idle"
           /\ result = "nil"
           /\ db = prior.db
           /\ backups = prior.backups
           /\ tarball = prior.tarball

\* C8 witness: the second start after an unpack: the database directory is the
\* unpacked one and the tarball is gone
C8_SecondStart ==
    /\ runs = 2
    /\ pc = "idle"
    /\ ~prior.tarball.exists
    /\ HasFile(db, Segment)
    /\ db.files[Segment] = Data(1)

\* the directory d holds the unpacked contents: every entry of the tarball,
\* and the local info.yaml
UnpackedContents(d) ==
    /\ d.exists
    /\ HasFile(prior.db, InfoYaml)
    /\ HasFile(d, InfoYaml)
    /\ d.files[InfoYaml] = prior.db.files[InfoYaml]
    /\ \A i \in 1..Len(prior.tarball.entries) :
         LET p == Join(unpackDir, prior.tarball.entries[i].Name) IN
         Len(p) > 0 /\ p[Len(p)] \in DOMAIN d.files

\* C9 (as claimed): in every state of MaybeUnpackRecoveryTarball, also after a
\* crash or a filesystem error, the database directory exists and holds the
\* complete prior contents or the complete unpacked contents.
C9_AtomicReplace ==
    runs > 0 => (db.exists /\ (db = prior.db \/ UnpackedContents(db)))

BackupOf(d) ==
    {[Name |-> <<"database", "/">> \o n, Body |-> d.files[n]] : n \in DOMAIN d.files}

IsBackupOf(archive, d) ==
    /\ archive.exists
    /\ archive.complete
    /\ {[Name |-> archive.entries[i].Name, Body |-> archive.entries[i].Body] :
           i \in 1..Len(archive.entries)} = BackupOf(d)

\* C10: in MaybeUnpackRecoveryTarball the backup archive of the existing
\* database directory is completely written before that directory is removed
\* or replaced; if the backup fails the directory is not modified.
C10_BackupBeforeReplace ==
    /\ (runs > 0 /\ db # prior.db)
        => \E t \in 0..MaxTime : IsBackupOf(backups[t], prior.db)
    /\ (runs > 0 /\ pc = "idle" /\ result = "database backup") => db = prior.db

\* C10 witness: the database directory has been removed, after the backup
C10_RemovedAfterBackup ==
    /\ runs > 0
    /\ pc = "rename"
    /\ ~db.exists
    /\ prior.db.exists

EntrySet(archive) ==
    {archive.entries[i] : i \in 1..Len(archive.entries)}

\* createTarball applied to every file of the directory d at path, with no
\* I/O error
PackedAgain(path, d) ==
    createTarball(NoArchive, path, Glob(d), Len(Glob(d)) + 1)

\* C11: unpacking the tarball made by CreateRecoveryTarball into a new
\* directory yields exactly the files of the database directory other than
\* info.yaml, with the same names and contents; packing the unpacked files
\* yields an archive with the same entries (names, sizes, contents), and
\* CreateRecoveryTarball on the database directory the unpack installed
\* yields the very archive that was unpacked.
C11_RoundTrip ==
    /\ (pc = "check" /\ runs = 1)
        => /\ unpack.exists
           /\ DOMAIN unpack.files = (DOMAIN prior.db.files) \ {InfoYaml}
           /\ \A n \in DOMAIN unpack.files : unpack.files[n] = prior.db.files[n]
           /\ ~PackedAgain(unpackDir, unpack).err
           /\ EntrySet(PackedAgain(unpackDir, unpack).archive) = EntrySet(tarball)
           /\ Len(PackedAgain(unpackDir, unpack).archive.entries) = Len(tarball.entries)
    /\ (UnpackSucceeded /\ tarball.exists /\ tarball.complete)
        => tarball = prior.tarball

\* C11 witness: a directory with info.yaml and two files sorted after it was
\* packed, unpacked and packed again
C11_PackedAgain ==
    /\ UnpackSucceeded
    /\ tarball.exists /\ tarball.complete
    /\ Len(tarball.entries) = 3
    /\ tarball.entries[2].Name = Segment
    /\ tarball.entries[2].Body = Data(1)

\* C12: a join token is single-use: of the join attempts that present the same
\* token, in whatever order their transactions commit, at most one succeeds,
\* and every attempt whose transaction runs after a successful one fails
\* (with InvalidToken, unless the database fails first).
C12_TokenSingleUse ==
    \A i, k \in 1..Len(consumeLog) :
        (i < k /\ consumeLog[i].token = consumeLog[k].token
               /\ consumeLog[i].result = "nil")
            => consumeLog[k].result \in {"InvalidToken", "Internal"}

\* C12 witness: two nodes with different certificates presented the same token
\* at the same time; the first joined, the second was refused
C12_SecondAttemptRefused ==
    /\ Len(consumeLog) >= 2
    /\ consumeLog[1].result = "nil"
    /\ consumeLog[2].token = consumeLog[1].token
    /\ consumeLog[2].result = "InvalidToken"
    /\ joins[consumeLog[1].joiner].cert # joins[consumeLog[2].joiner].cert

\* the request the handler of m is serving, or has served
Serving(m) == handler[m].req

\* no request was sent to a member, and the files of the members other than m
\* are what they were
KeptLocal(m) ==
    /\ \A p \in Members : forwards[p] = 0
    /\ \A p \in Members \ {m} : certFiles[p] = certPrior[p] /\ handler[p].pc = "idle"

\* C13: the receiver of a certificate update sends it to every other member,
\* once each, exactly when the request is no notification and the database is
\* open (unless the handler fails before the fan-out, and then it sends and
\* writes nothing); otherwise it sends no request and only its own files change.
C13_FanOutRule ==
    /\ handler[Receiver].pc \in {"idle", "received"} => \A p \in Members : forwards[p] = 0
    /\ handler[Receiver].pc \notin {"idle", "received"}
        => IF ~Serving(Receiver).notification /\ dbOpen[Receiver]
           THEN \/ /\ forwards[Receiver] = 0
                   /\ \A p \in Members \ {Receiver} : forwards[p] = 1
                \/ /\ handler[Receiver].pc = "done"
                   /\ handler[Receiver].resp \in {"error", "crashed"}
                   /\ KeptLocal(Receiver)
                   /\ certFiles = certPrior
           ELSE KeptLocal(Receiver)

\* C13 witness: an active member whose database is offline has applied an
\* update from a client to its own files, and to no other member
C13_LocalOnly ==
    /\ phase[Receiver] = "Active"
    /\ ~dbOpen[Receiver]
    /\ handler[Receiver].pc = "done"
    /\ handler[Receiver].resp = "ok"
    /\ ~Serving(Receiver).notification
    /\ certFiles[Receiver] # certPrior[Receiver]
    /\ KeptLocal(Receiver)

HoldsPair(m, req) ==
    /\ certFiles[m][req.name].crt = req.PublicKey
    /\ certFiles[m][req.name].key = req.PrivateKey

C15_KeypairAtomic ==
    \A m \in Members :
        (handler[m].pc = "done" /\ Serving(m).name \in CertNames)
            => LET f == certFiles[m][Serving(m).name]
                   was == certPrior[m][Serving(m).name]
               IN ~(/\ f.key = was.key
                    /\ \/ f.crt = Serving(m).PublicKey
                       \/ f.ca = Serving(m).CA)

\* C16: a handler invokes the reload of the cluster certificate at most once,
\* only for the name "cluster" and only after it has written the .crt and the
\* .key of the request; a handler that ends after writing both invokes it if
\* the name is "cluster", and a handler for any other name never does.
C16_ReloadRule ==
    \A m \in Members :
        handler[m].pc # "idle"
            => /\ handler[m].reloads \in {0, 1}
               /\ handler[m].reloads = 1
                    => /\ Serving(m).name = <<"cluster">>
                       /\ {"crt", "key"} \subseteq handler[m].written
                       /\ HoldsPair(m, Serving(m))
               /\ (handler[m].pc = "done" /\ handler[m].resp # "crashed"
                     /\ {"crt", "key"} \subseteq handler[m].written)
                    => (handler[m].reloads = 1 <=> Serving(m).name = <<"cluster">>)
               /\ (handler[m].pc = "done" /\ handler[m].resp = "ok")
                    => {"crt", "key"} \subseteq handler[m].written

\* C16 witness: a member that received the update of the cluster certificate
\* as a notification has reloaded it
C16_Reloaded ==
    \E m \in Members \ {Receiver} :
        /\ handler[m].pc = "done"
        /\ handler[m].resp = "ok"
        /\ handler[m].reloads = 1
        /\ loaded[m] = [crt |-> Pem("crt", 1), key |-> Pem("key", 1)]

\* C17 (as claimed): a certificate update that arrives at a member that has
\* not bootstrapped or joined is rejected and changes no file.
C17_ActiveOnly ==
    \A m \in Members :
        (phase[m] = "PreInit" /\ handler[m].pc = "done")
            => /\ handler[m].resp # "ok"
               /\ certFiles[m] = certPrior[m]

WellFormedPut(req) ==
    /\ req.PublicKey.t = "pem"
    /\ req.PrivateKey.t = "pem"
    /\ req.CA.t \in {"pem", "empty"}
    /\ req.name \in CertNames

\* C17 (amended): the endpoint is served before the daemon is initialized: a
\* member that has not bootstrapped or joined does not reject the update for
\* its phase; it forwards it to no member (its database is not open), answers
\* a malformed request with an error, and writes a well-formed one to its own
\* files.
C17_ServedBeforeInit ==
    \A m \in Members :
        (phase[m] = "PreInit" /\ handler[m].pc # "idle")
            => /\ handler[m].resp # "unavailable"
               /\ KeptLocal(m)
               /\ handler[m].pc = "done"
                    => /\ ~WellFormedPut(Serving(m)) => handler[m].resp \in {"bad request", "crashed"}
                       /\ WellFormedPut(Serving(m)) => handler[m].resp \in {"ok", "error", "crashed"}
                       /\ handler[m].resp = "ok" => HoldsPair(m, Serving(m))

\* C17 witness: a member that is not initialized has written the keypair of
\* an update
C17_UpdatedBeforeInit ==
    /\ phase[Receiver] = "PreInit"
    /\ handler[Receiver].pc = "done"
    /\ handler[Receiver].resp = "ok"
    /\ HoldsPair(Receiver, Serving(Receiver))
    /\ certFiles[Receiver] # certPrior[Receiver]


-----------------------------------------------------------------------------
(* Shutting down the server                                                  *)

\* Socket.Close returned before it reached the server: it had no listener, or
\* closing its listener failed
ReturnedEarly == call.fn = "Socket.Close" /\ listener \in {"nil", "open"}

\* no connection is open and none is accepted
ServerClosed ==
    /\ ~listening
    /\ \A c \in Conns : conns[c] \in {"none", "closed", "forced"}

\* C18: with a timeout of 0, shutdownServer and Socket.Close return having
\* closed the server and all its connections at once, lazy or not: no drain
\* window is opened and no goroutine is started. (Socket.Close reaches the
\* server only if it has a listener and closing it succeeds.)
C18_ZeroTimeoutForces ==
    (call.pc # "idle" /\ call.timeout = 0) =>
        /\ call.pc = "done"
        /\ tasks = 0
        /\ \A t \in {"call", "bg"} : drain[t].pc = "none"
        /\ elapsed = 0
        /\ ~ReturnedEarly => ServerClosed

\* a lazy shutdown with a timeout of 0 has cut a request short
C18_LazyForced ==
    /\ call.fn = "shutdownServer"
    /\ call.timeout = 0
    /\ call.lazy
    /\ call.pc = "done"
    /\ \E c \in Conns : conns[c] = "forced"

\* a shutdown that waits for the drain: not lazy, timeout not 0
Graceful == call.pc # "idle" /\ call.timeout # 0 /\ ~call.lazy /\ ~ReturnedEarly

C19_ClosedAtReturn ==
    (Graceful /\ call.pc = "done") =>
        /\ ServerClosed
        /\ call.ret \in {"nil", "error"}
        /\ call.ret = "nil" <=>
              /\ \A c \in Conns : conns[c] # "forced"
              /\ drain["call"].lnerr = "nil"
        /\ (\E c \in Conns : conns[c] = "forced") => ContextDone(drain["call"])

C20_LazyDrainsInBackground ==
    (call.pc # "idle" /\ call.lazy /\ call.timeout # 0) =>
        /\ call.pc = "done"
        /\ call.ret = "nil"
        /\ tasks = 1
        /\ drain["call"].pc = "none"
        /\ drain["bg"].pc # "none"
        /\ \A c \in Conns : conns[c] = "forced" => elapsed >= call.timeout

\* the handler that asked for the shutdown has written its response, the
\* context of the caller is cancelled, and the goroutine is still draining
C20_ResponseWritten ==
    /\ call.lazy
    /\ call.timeout # 0
    /\ call.caller = "handler"
    /\ callerCtx = "cancelled"
    /\ drain["bg"].pc = "poll"
    /\ elapsed < call.timeout
    /\ conns[Trigger] = "idle"
    /\ \E c \in Conns : conns[c] = "active"

\* C21: once Socket.Close has closed the listener, no connection is accepted
\* any more, and a request that was in flight is cut short only when the
\* drain window has ended (at once if the timeout is 0). The drain begins
\* with the listener closed.
C21_ListenerClosedBeforeDrain ==
    [][(call.fn = "Socket.Close" /\ listener = "closed") =>
          /\ \A c \in Conns : conns[c] = "none" => conns'[c] = "none"
          /\ \A c \in Conns :
                (conns[c] = "active" /\ conns'[c] = "forced") =>
                    elapsed >= call.timeout
          /\ drain'["call"].pc = "poll" => ~listening]_vars

\* Socket.Close has closed the listener and the drain is under way: one
\* request is in flight inside the window, and one connection was never made
C21_DrainingBehindClosedListener ==
    /\ call.fn = "Socket.Close"
    /\ listener = "closed"
    /\ drain["call"].pc = "poll"
    /\ elapsed < call.timeout
    /\ \E c \in Conns : conns[c] = "active"
    /\ \E c \in Conns : conns[c] = "none"

-----------------------------------------------------------------------------
(* Waiting for the daemon                                                    *)

C22_SuccessAfterCheck ==
    /\ (ready.pc = "returned" /\ ready.ret = "nil") =>
           succeeded /\ daemonState = "PreInit"
    /\ (ready.pc = "returned" /\ ~succeeded) => ready.ret = "error"

\* C22: Ready returns nil only when a CheckReady against a daemon in PreInit
\* has succeeded, never while every attempt has failed; once the context has
\* ended with no successful attempt, no attempt succeeds any more, and Ready
\* returns, with an error.
C22_ReadyAfterCheck ==
    /\ []C22_SuccessAfterCheck
    /\ [][(readyCtx = "done" /\ ~succeeded) => ~succeeded']_vars
    /\ (ready.pc = "select" /\ readyCtx = "done") ~> (ready.pc = "returned")

\* Ready has returned nil after a failed attempt
C22_ReadyAtLast ==
    /\ ready.pc = "returned"
    /\ ready.ret = "nil"
    /\ poll.i > 0
    /\ poll.pc = "exit"

\* C23: when the context is done and Ready has returned, the goroutine makes
\* no further attempt.
C23_PollingStops ==
    [][(readyCtx = "done" /\ ready.pc = "returned") =>
          poll'.attempts = poll.attempts]_vars

-----------------------------------------------------------------------------
(* Bootstrap or join                                                         *)

\* C24: every request NewCluster and JoinCluster send has Bootstrap set or a
\* join token, and not both; a call with an address that does not parse
\* sends none.
C24_BootstrapXorJoin ==
    \A k \in 1..Len(controls) :
        LET c == controls[k] IN
        /\ c.req.sent => (c.req.Bootstrap # (c.req.JoinToken # ""))
        /\ c.req.sent => (c.req.Bootstrap <=> c.fn = "NewCluster")
        /\ ParseAddrPort(c.address).err # "nil" => ~c.req.sent

-----------------------------------------------------------------------------
(* Forwarding of certificate updates                                         *)

\* the number of requests the members have sent to each other for the update
ForwardedRequests ==
    Cardinality({pk \in Members \X (1..Cardinality(Members)) :
                    pk[2] <= forwards[pk[1]]})

\* m serves a request that carries the notification tag
Notified(m) == handler[m].pc # "idle" /\ Serving(m).notification

\* C25: a member that serves a notification sends no request, so the members
\* send each other one request per other member or none at all for one update
\* of a client: no member is sent the update twice, none is sent it back to
\* the receiver, and each member runs the handler, and reloads, at most once.
C25_NoForwardingLoop ==
    /\ forwards[Receiver] = 0
    /\ \A p \in Members : forwards[p] <= 1
    /\ ForwardedRequests \in {0, Cardinality(Members) - 1}
    /\ handler[Receiver].pc = "query" => ForwardedRequests = Cardinality(Members) - 1
    /\ \A m \in Members : Notified(m) => handler[m].pc # "query"
    /\ \A m \in Members : handler[m].pc # "idle" => handler[m].reloads <= 1

\* the fan-out of an update has ended: every other member has served one
\* notification and the receiver has answered
C25_FanOutEnded ==
    /\ \A m \in Members : handler[m].pc = "done" /\ handler[m].resp = "ok"
    /\ ~Notified(Receiver)
    /\ ForwardedRequests = Cardinality(Members) - 1
    /\ \A m \in Members \ {Receiver} : Notified(m)

-----------------------------------------------------------------------------
(* Certificate updates that fail before they write                           *)

\* the certificate or the key is not PEM, or the CA is given and is not PEM,
\* or the name is a path
Malformed(req) ==
    \/ req.PublicKey.t # "pem"
    \/ req.PrivateKey.t # "pem"
    \/ req.CA.t \notin {"pem", "empty"}
    \/ NameIsPath(req.name)

\* the handler of m has written no file and reloaded nothing
Untouched(m) ==
    /\ certFiles[m] = certPrior[m]
    /\ handler[m].written = {}
    /\ handler[m].reloads = 0

C30_MalformedUntouched ==
    \A m \in Members :
        (handler[m].pc # "idle" /\ Malformed(Serving(m))) =>
            /\ Untouched(m)
            /\ handler[m].pc = "done" => handler[m].resp # "ok"

\* C30: a handler that ends while it forwards the update or validates it
\* returns an error and has written no .ca, .crt or .key file and reloaded
\* nothing on its member; a request with a certificate, key or CA that is
\* not PEM, or with a name that is a path, never gets further.
C30_FailedUpdateUntouched ==
    /\ []C30_MalformedUntouched
    /\ [][\A m \in Members :
            (handler[m].pc \in {"received", "query", "validate"}
             /\ handler'[m].pc = "done") =>
                /\ Untouched(m)'
                /\ handler'[m].resp # "ok"]_vars

\* the update failed on a peer: the receiver answered with an error and kept
\* its files, and another peer has written its own
C30_FanOutFailed ==
    /\ handler[Receiver].pc = "done"
    /\ handler[Receiver].resp = "error"
    /\ ~Malformed(Serving(Receiver))
    /\ ForwardedRequests = Cardinality(Members) - 1
    /\ Untouched(Receiver)
    /\ \E p \in Members : handler[p].pc = "done" /\ handler[p].resp = "ok"
    /\ \E p \in Members : certFiles[p] # certPrior[p]

-----------------------------------------------------------------------------
(* Entries whose size differs from their header                              *)

\* the entries of the tarball whose body has not the size of its header
Mismatched == {k \in 1..Len(tarball.entries) :
                 SizeOf(tarball.entries[k].Body) # tarball.entries[k].Size}

\* C26: the unpack of a tarball never gets past an entry whose body has not
\* the size its header gives: it returns an error at that entry, no later
\* entry is created, and the database directory, the backups and the tarball
\* are what they were when the daemon started.
C26_SizeMismatchRejected ==
    /\ (pc \notin {"idle", "unpack"}) => Mismatched = {}
    /\ \A k \in Mismatched : \A c \in created :
          \E j \in 1..k : tarball.entries[j].Name = c.name
    /\ (pc = "idle" /\ result = "mismatched size") =>
          /\ tarball.exists
          /\ Snapshot = prior

\* the second entry of a tarball was short: the unpack created two files and
\* returned the error
C26_SecondEntryShort ==
    /\ pc = "idle"
    /\ result = "mismatched size"
    /\ Mismatched = {2}
    /\ Cardinality(created) = 2
    /\ unpack.exists

-----------------------------------------------------------------------------
(* The membership read from the state directory                              *)

NodeList == dumpYamlNodeStore(db, ClusterYaml).nodes

\* the pairs of a Remote and an entry of the node list with the same address
AddressPairs ==
    {p \in truststore \X (1..Len(NodeList)) : p[1].Address = NodeList[p[2]].Address}

MemberOfPair(p) ==
    Member(NodeList[p[2]].ID, p[1].Name, NodeList[p[2]].Address, NodeList[p[2]].Role)

\* every address of the node list is the address of a Remote, and no address
\* occurs twice in the node list or in the trust store
Reconciled ==
    /\ \A j \in 1..Len(NodeList) : \E r \in truststore : r.Address = NodeList[j].Address
    /\ \A i, j \in 1..Len(NodeList) :
          i # j => NodeList[i].Address # NodeList[j].Address
    /\ \A r, s \in truststore : r # s => r.Address # s.Address

\* C27: GetDqliteClusterMembers returns one member for each pair of a Remote
\* and a node-list entry with the same address, and no other member: the
\* member has the ID, the address and the role of the entry and the name of
\* the Remote. When every address of the node list is that of a Remote and
\* addresses are unique, it returns one member for each entry of the node
\* list.
C27_MemberPerAddressPair ==
    (dqliteMembers.called /\ ~dqliteMembers.err) =>
        LET members == dqliteMembers.members IN
        /\ \A k \in 1..Len(members) : \E p \in AddressPairs : members[k] = MemberOfPair(p)
        /\ \A p \in AddressPairs :
              Cardinality({k \in 1..Len(members) : members[k] = MemberOfPair(p)})
                = Cardinality({q \in AddressPairs : MemberOfPair(q) = MemberOfPair(p)})
        /\ Reconciled =>
              /\ Len(members) = Len(NodeList)
              /\ \A j \in 1..Len(NodeList) :
                    Cardinality({k \in 1..Len(members) :
                        /\ members[k].DqliteID = NodeList[j].ID
                        /\ members[k].Address = NodeList[j].Address
                        /\ members[k].Role = NodeList[j].Role}) = 1

\* two Remotes with the address of one entry of the node list, and an entry
\* with no Remote: two members are returned for the one, none for the other
C27_TwoRemotesOneAddress ==
    /\ dqliteMembers.called
    /\ ~dqliteMembers.err
    /\ Len(NodeList) = 2
    /\ Cardinality(truststore) = 2
    /\ Cardinality(AddressPairs) = 2
    /\ Len(dqliteMembers.members) = 2
    /\ dqliteMembers.members[1].DqliteID = dqliteMembers.members[2].DqliteID
    /\ dqliteMembers.members[1].Name # dqliteMembers.members[2].Name

-----------------------------------------------------------------------------
(* One daemon on the control socket                                          *)

\* d has returned from Listen without error and its listener is open
Serves(d) == listen[d].pc = "done" /\ listen[d].ret = "nil" /\ listen[d].live

\* C29: at most one daemon has a listener bound by a successful Listen, and
\* the socket file of such a daemon is the file at the socket path: no Listen
\* of another daemon removes it.
C29_BoundListenerReachable ==
    /\ \A d \in Daemons : Serves(d) => sockFile = d
    /\ Cardinality({d \in Daemons : Serves(d)}) <= 1

-----------------------------------------------------------------------------
(* Files left in the unpack directory                                        *)

\* the names of the files the entries of an archive are unpacked to
UnpackedNames(archive) ==
    {Base(Join(unpackDir, archive.entries[k].Name)) : k \in 1..Len(archive.entries)}

\* C28: when MaybeUnpackRecoveryTarball has unpacked a tarball and returned
\* nil, the database directory holds the files of the entries of that
\* tarball and info.yaml, and no other file.
C28_OnlyUnpackedEntries ==
    (pc = "idle" /\ result = "nil" /\ prior.tarball.exists) =>
        /\ db.exists
        /\ DOMAIN db.files = UnpackedNames(prior.tarball) \cup {InfoYaml}

====
